---- MODULE Spec2Model ----
(***************************************************************************)
(* Verification model of platformatic/watt-extra: the vertical scaling     *)
(* algorithm (lib/scaling-algorithm.js), the scaling controller (scaler    *)
(* plugin) and the profiling controller (plugins/flamegraphs.js).          *)
(*                                                                         *)
(* ELU values are integers in hundredths (0.8 is 80), which is the         *)
(* precision #calculateAppELU rounds to. Times are integer clock units of  *)
(* Date.now().                                                             *)
(***************************************************************************)
EXTENDS Integers, Sequences, FiniteSets, Bags, TLC

VARIABLES
  \* ---- scaling algorithm (lib/scaling-algorithm.js) ----
  workersInfo,      \* argument of getRecommendations: worker.application per worker
  appELU,           \* what #calculateAppELU returns per application
  maxWorkers,       \* options.maxWorkers
  recommendations,  \* value returned by getRecommendations
  algPc,            \* "ready" | "done" | "threw"
  \* ---- scaling controller (scaler plugin) ----
  now,              \* Date.now()
  isScaling,
  lastScaling,
  tasks,            \* position of each checkForScaling invocation that passed the guards
  timerArmed,       \* the setTimeout(checkForScaling, timeout) has not fired yet
  lastAttempt,      \* outcome of the latest checkForScaling call: "none" | "started" | "skipped"
  applyLog,         \* one entry per runtime.updateApplicationsResources invocation
  lastFinish,       \* how the latest checkForScaling that passed the guards ended: "none" | "noRecommendations" | "applied" | "failed"
  \* ---- profiling controller (plugins/flamegraphs.js) ----
  prof,             \* the fields of every Profiler instance
  inflight,         \* commands sent to a worker and not answered yet, with the code awaiting them
  cnt,              \* how many requests, interval callbacks, stop commands, start commands so far
  lastDelivery,     \* the onProfile invocation made by the step just taken
  maxBoundary,      \* the latest interval callback whose profile reached onProfile
  delivered,        \* per accepted request, how often it was passed to onProfile
  lastCalls,        \* the requests the profile handler sent to ICC for lastDelivery
  uploadsFor,       \* per alertId, how many uploads carried it so far
  profilers,        \* the registry: (service, profile type) -> Profiler instance
  profilersPauseReqs, \* service -> timestamp the pause ends at
  workers,          \* the workers runtime.getWorkers() reports
  calls,            \* bag of requestFlamegraphs / pauseProfiling invocations suspended at an await
  icc               \* what ICC may answer: "up" answers 200, "any" may fail any request

algVars == <<workersInfo, appELU, maxWorkers, recommendations, algPc>>
scalerVars ==
  <<isScaling, lastScaling, tasks, timerArmed, lastAttempt, applyLog, lastFinish>>
profilerVars ==
  <<prof, inflight, cnt, lastDelivery, maxBoundary, delivered, lastCalls,
    uploadsFor>>
flameVars == <<profilers, profilersPauseReqs, workers, calls, icc>>

\* marks an absent value (null, undefined, no timer)
None == 0 - 1

----------------------------------------------------------------------------
(* Scaling algorithm                                                        *)

Apps == {"A", "B", "C"}
ELUValues == {10, 50, 90}
MaxWorkersValues == {2, 3, 10}
MaxWorkersInfo == 4

\* constructor defaults
scaleUpELU == 80
scaleDownELU == 20
minELUDiff == 20

\* all sequences over S of length 0..n
RECURSIVE SeqsUpTo(_, _)
SeqsUpTo(S, n) ==
  IF n = 0 THEN {<<>>}
  ELSE LET shorter == SeqsUpTo(S, n - 1)
       IN shorter \cup {Append(s, x) : s \in {t \in shorter : Len(t) = n - 1}, x \in S}

\* the for loop over workersInfo: one appInfo per application, in order of
\* first appearance, counting its workers
RECURSIVE BuildAppsInfo(_, _)
BuildAppsInfo(ws, acc) ==
  IF ws = <<>> THEN acc
  ELSE LET a == Head(ws)
       IN IF \E i \in DOMAIN acc : acc[i].applicationId = a
          THEN BuildAppsInfo(Tail(ws),
                 [i \in DOMAIN acc |->
                    IF acc[i].applicationId = a
                    THEN [acc[i] EXCEPT !.workersCount = @ + 1]
                    ELSE acc[i]])
          ELSE BuildAppsInfo(Tail(ws),
                 Append(acc, [applicationId |-> a, elu |-> appELU[a], workersCount |-> 1]))

\* the sort comparator: elu ascending, then workersCount descending
CompareApps(app1, app2) ==
  IF app1.elu > app2.elu THEN 1
  ELSE IF app1.elu < app2.elu THEN -1
  ELSE IF app1.workersCount < app2.workersCount THEN 1
  ELSE IF app1.workersCount > app2.workersCount THEN -1
  ELSE 0

\* insert x after every element that does not compare greater (stable)
RECURSIVE InsertSorted(_, _)
InsertSorted(s, x) ==
  IF s = <<>> THEN <<x>>
  ELSE IF CompareApps(Head(s), x) > 0 THEN <<x>> \o s
  ELSE <<Head(s)>> \o InsertSorted(Tail(s), x)

\* Array.prototype.sort is stable
RECURSIVE SortApps(_)
SortApps(s) ==
  IF s = <<>> THEN <<>>
  ELSE InsertSorted(SortApps(SubSeq(s, 1, Len(s) - 1)), s[Len(s)])

ScaleDownPass_OnlyLowest(apps, i) ==
  IF apps[1].elu < scaleDownELU /\ apps[1].workersCount > 1
  THEN << [applicationId |-> apps[1].applicationId,
           workersCount |-> apps[1].workersCount - 1,
           direction |-> "down"] >>
  ELSE <<>>

\* the scale-down loop: recommendations pushed for apps 1..i
RECURSIVE ScaleDownPass(_, _)
ScaleDownPass(apps, i) ==
  IF i = 0 THEN <<>>
  ELSE LET prev == ScaleDownPass(apps, i - 1)
           app == apps[i]
       IN IF app.elu < scaleDownELU /\ app.workersCount > 1
          THEN Append(prev, [applicationId |-> app.applicationId,
                             workersCount |-> app.workersCount - 1,
                             direction |-> "down"])
          ELSE prev

\* the condition under which a worker is moved from the lowest-ELU app
ReallocationAllowed(up, down) ==
  LET eluDiff == up.elu - down.elu
      workersDiff == down.workersCount - up.workersCount
  IN eluDiff >= minELUDiff \/ workersDiff >= 2

ScaleUpPart_LowestFirst(apps, totalWorkersCount) ==
  IF apps[Len(apps)].elu > scaleUpELU /\ totalWorkersCount < maxWorkers
  THEN << [applicationId |-> apps[1].applicationId,
           workersCount |-> apps[1].workersCount + 1,
           direction |-> "up"] >>
  ELSE <<>>

ScaleUpPart_IgnoringCap(apps, totalWorkersCount) ==
  LET scaleUpCandidate == apps[Len(apps)]
  IN IF scaleUpCandidate.elu > scaleUpELU
     THEN << [applicationId |-> scaleUpCandidate.applicationId,
              workersCount |-> scaleUpCandidate.workersCount + 1,
              direction |-> "up"] >>
     ELSE <<>>

\* the scale-up part, given the sorted apps and totalWorkersCount after the
\* scale-down loop
ScaleUpPart(apps, totalWorkersCount) ==
  LET scaleUpCandidate == apps[Len(apps)]
      scaleDownCandidate == apps[1]
  IN IF scaleUpCandidate.elu > scaleUpELU
     THEN IF totalWorkersCount >= maxWorkers
          THEN IF ReallocationAllowed(scaleUpCandidate, scaleDownCandidate)
               THEN << [applicationId |-> scaleDownCandidate.applicationId,
                        workersCount |-> scaleDownCandidate.workersCount - 1,
                        direction |-> "down"],
                       [applicationId |-> scaleUpCandidate.applicationId,
                        workersCount |-> scaleUpCandidate.workersCount + 1,
                        direction |-> "up"] >>
               ELSE <<>>
          ELSE << [applicationId |-> scaleUpCandidate.applicationId,
                   workersCount |-> scaleUpCandidate.workersCount + 1,
                   direction |-> "up"] >>
     ELSE <<>>

SortedAppsInfo(ws) == SortApps(BuildAppsInfo(ws, <<>>))

\* getRecommendations for a non-empty list of workers
getRecommendations(ws) ==
  LET apps == SortedAppsInfo(ws)
      downs == ScaleDownPass(apps, Len(apps))
  IN downs \o ScaleUpPart(apps, Len(ws) - Len(downs))

\* every application a listed worker belongs to has reported health, so its
\* ELU is a number; the configuration and the worker list are inputs
InitAlg ==
  /\ workersInfo \in SeqsUpTo(Apps, MaxWorkersInfo)
  /\ appELU \in [Apps -> ELUValues]
  /\ maxWorkers \in MaxWorkersValues
  /\ recommendations = <<>>
  /\ algPc = "ready"

\* a call of getRecommendations; with no workers appsInfo.at(-1) is undefined
\* and reading its elu throws
GetRecommendationsCall ==
  /\ algPc = "ready"
  /\ IF workersInfo = <<>>
     THEN /\ algPc' = "threw"
          /\ recommendations' = <<>>
     ELSE /\ algPc' = "done"
          /\ recommendations' = getRecommendations(workersInfo)
  /\ UNCHANGED <<workersInfo, appELU, maxWorkers>>

----------------------------------------------------------------------------
(* Scaling controller                                                       *)

MaxTasks == 2
TaskIds == 1..MaxTasks
CooldownMs == 2
MaxTime == 6
MaxApplies == 3

IsInCooldown_NoCheck == FALSE

\* Date.now() < lastScaling + cooldown * 1000
IsInCooldown == now < lastScaling + CooldownMs

ScalingGuardsPass_NoMutex == ~IsInCooldown

\* the two guards at the top of checkForScaling
ScalingGuardsPass == ~(isScaling \/ IsInCooldown)

InitScaler ==
  /\ isScaling = FALSE
  /\ lastScaling = 0
  /\ tasks = [t \in TaskIds |-> "idle"]
  /\ timerArmed = TRUE
  /\ lastAttempt = "none"
  /\ applyLog = <<>>
  /\ lastFinish = "none"

\* checkForScaling up to its first await: either return at the guards or set
\* isScaling and call runtime.getWorkers()
checkForScaling ==
  IF ScalingGuardsPass
  THEN \E t \in TaskIds :
         /\ tasks[t] = "idle"
         /\ \A u \in TaskIds : u < t => tasks[u] # "idle"
         /\ tasks' = [tasks EXCEPT ![t] = "listing"]
         /\ isScaling' = TRUE
         /\ lastAttempt' = "started"
  ELSE /\ lastAttempt' = "skipped"
       /\ UNCHANGED <<tasks, isScaling>>

\* 'application:worker:health' with currentHealth.elu > scaleUpELU
HealthEvent ==
  /\ checkForScaling
  /\ UNCHANGED <<now, lastScaling, timerArmed, applyLog, lastFinish>>

\* setTimeout(checkForScaling, timeout * 1000) fires, once
ScalingTimer ==
  /\ timerArmed
  /\ timerArmed' = FALSE
  /\ checkForScaling
  /\ UNCHANGED <<now, lastScaling, applyLog, lastFinish>>

FinishScaling_CooldownOnSuccess(t, outcome) ==
  /\ tasks' = [tasks EXCEPT ![t] = "idle"]
  /\ isScaling' = FALSE
  /\ lastScaling' = IF outcome = "failed" THEN lastScaling ELSE now
  /\ lastFinish' = outcome

\* the end of checkForScaling, the try block left in the way outcome says:
\* the finally block
FinishScaling(t, outcome) ==
  /\ tasks' = [tasks EXCEPT ![t] = "idle"]
  /\ isScaling' = FALSE
  /\ lastScaling' = now
  /\ lastFinish' = outcome

\* getWorkers resolves and the algorithm returns no recommendation, or
\* getWorkers or getRecommendations throws
ListingDoneNoApply(t) ==
  /\ tasks[t] = "listing"
  /\ \E outcome \in {"noRecommendations", "failed"} : FinishScaling(t, outcome)
  /\ UNCHANGED <<now, timerArmed, lastAttempt, applyLog>>

\* getWorkers resolves, recommendations.length > 0: applyRecommendations
\* calls runtime.updateApplicationsResources
ListingDoneApply(t) ==
  /\ tasks[t] = "listing"
  /\ Len(applyLog) < MaxApplies
  /\ tasks' = [tasks EXCEPT ![t] = "applying"]
  /\ applyLog' = Append(applyLog, [at |-> now, done |-> None])
  /\ UNCHANGED <<now, isScaling, lastScaling, timerArmed, lastAttempt, lastFinish>>

\* updateApplicationsResources resolves or rejects
ApplyDone(t) ==
  /\ tasks[t] = "applying"
  /\ \E outcome \in {"applied", "failed"} : FinishScaling(t, outcome)
  /\ \E i \in DOMAIN applyLog :
       /\ applyLog[i].done = None
       /\ applyLog' = [applyLog EXCEPT ![i].done = now]
  /\ UNCHANGED <<now, timerArmed, lastAttempt>>

\* time passes
Tick ==
  /\ now < MaxTime
  /\ now' = now + 1

----------------------------------------------------------------------------
(* Profiler (plugins/flamegraphs.js, class Profiler)                        *)

MaxProfilers == 2
ProfIds == 1..MaxProfilers
AlertIds == {"a1", "a2"}
NoAlert == "none"
MaxRequests == 2
MaxProfTime == 4

\* durationMillis, in clock units
Duration == 2

\* interval callbacks and caller's stops worth following within the other bounds
MaxTicks == MaxProfTime \div Duration
MaxStops == MaxRequests \div 2

\* a Profiler as its constructor leaves it; onProfile is the handler of
\* createProfileHandler or a callback that sends nothing
NewProfiler(workerId, type, onProfile) ==
  [created |-> TRUE, workerId |-> workerId, type |-> type, onProfile |-> onProfile,
   requests |-> <<>>, isProfiling |-> FALSE,
   getProfileInterval |-> None, lostIntervals |-> <<>>,
   stopProfileTimeout |-> None, lostTimeouts |-> <<>>,
   nextProfileTimestamp |-> None]

NoProfiler ==
  [created |-> FALSE, workerId |-> "", type |-> "", onProfile |-> "",
   requests |-> <<>>, isProfiling |-> FALSE,
   getProfileInterval |-> None, lostIntervals |-> <<>>,
   stopProfileTimeout |-> None, lostTimeouts |-> <<>>,
   nextProfileTimestamp |-> None]

\* s without its i-th element
RemoveAt(s, i) == SubSeq(s, 1, i - 1) \o SubSeq(s, i + 1, Len(s))

ProcessedIndex_Strict(requests, profileTimestamp) ==
  LET hits == {i \in DOMAIN requests : requests[i].timestamp < profileTimestamp}
  IN IF hits = {} THEN 0 ELSE CHOOSE i \in hits : \A j \in hits : j <= i

\* the loop of #getProfileRequests: one past the last request whose
\* timestamp is <= profileTimestamp
ProcessedIndex(requests, profileTimestamp) ==
  LET hits == {i \in DOMAIN requests : requests[i].timestamp <= profileTimestamp}
  IN IF hits = {} THEN 0 ELSE CHOOSE i \in hits : \A j \in hits : j <= i

\* #getProfileRequests(profileTimestamp): what splice(0, processedIndex)
\* returns and what it leaves in #requests
getProfileRequests(requests, profileTimestamp) ==
  LET k == ProcessedIndex(requests, profileTimestamp)
  IN [matched |-> SubSeq(requests, 1, k),
      rest |-> SubSeq(requests, k + 1, Len(requests))]

\* the non-null alertIds of the requests, in order
RECURSIVE AlertIdsOf(_)
AlertIdsOf(reqs) ==
  IF reqs = <<>> THEN <<>>
  ELSE IF Head(reqs).alertId # NoAlert
       THEN <<Head(reqs).alertId>> \o AlertIdsOf(Tail(reqs))
       ELSE AlertIdsOf(Tail(reqs))

Upload(alertId, res) ==
  [kind |-> "upload", alertId |-> alertId, alertIds |-> <<>>, res |-> res]

Attach(alertIds, res) ==
  [kind |-> "attach", alertId |-> NoAlert, alertIds |-> alertIds, res |-> res]

AttachFlamegraph_AlwaysReupload(alertIds, attachRes) ==
  <<Attach(alertIds, attachRes)>>
    \o [i \in 1..Len(alertIds) |-> Upload(alertIds[i], "sent")]

AttachFlamegraph_FirstOnly(alertIds, attachRes) ==
  <<Attach(alertIds, attachRes)>>
    \o (IF attachRes = "ok" THEN <<>>
        ELSE <<Upload(alertIds[1], "sent")>>)

\* _attachFlamegraphToAlerts: the attach call and, when it fails, one
\* sendServiceFlamegraph per alertId
AttachFlamegraph(alertIds, attachRes) ==
  <<Attach(alertIds, attachRes)>>
    \o (IF attachRes = "ok" THEN <<>>
        ELSE [i \in 1..Len(alertIds) |-> Upload(alertIds[i], "sent")])

ProfileHandler_AttachAll(err, profile, requests, uploadRes, attachRes) ==
  IF err THEN <<>>
  ELSE IF profile = "undefined" THEN <<>>
  ELSE LET alertIds == AlertIdsOf(requests)
           alertId == IF alertIds = <<>> THEN NoAlert ELSE Head(alertIds)
       IN <<Upload(alertId, uploadRes)>>
            \o (IF uploadRes = "ok" /\ alertIds # <<>>
                THEN AttachFlamegraph(alertIds, attachRes)
                ELSE <<>>)

\* the handler createProfileHandler returns, as the requests it sends to
\* ICC; uploadRes and attachRes are what ICC answers
ProfileHandler(err, profile, requests, uploadRes, attachRes) ==
  IF err THEN <<>>
  ELSE IF profile = "undefined" THEN <<>>  \* reading profile.data throws, caught
  ELSE LET alertIds == AlertIdsOf(requests)
           alertId == IF alertIds = <<>> THEN NoAlert ELSE Head(alertIds)
           others == IF alertIds = <<>> THEN <<>> ELSE Tail(alertIds)
       IN <<Upload(alertId, uploadRes)>>
            \o (IF uploadRes = "ok" /\ others # <<>>
                THEN AttachFlamegraph(others, attachRes)
                ELSE <<>>)

\* how many of the calls are uploads carrying alertId a
UploadsCarrying(callsMade, a) ==
  Cardinality({i \in DOMAIN callsMade :
                 callsMade[i].kind = "upload" /\ callsMade[i].alertId = a})

\* the answers ICC may give to the upload and to the attach request
IccAnswers ==
  IF icc = "up" THEN {[upload |-> "ok", attach |-> "ok"]}
  ELSE [upload : {"ok", "error"}, attach : {"ok", "unsupported", "error"}]

\* the answers to the requests the handler makes for this call: no attach
\* request follows a failed upload or fewer than two alertIds, and no
\* request at all an error or a missing profile
AnswersTo(err, profile, requests) ==
  {ans \in IccAnswers :
     /\ (err \/ profile = "undefined") => ans.upload = "ok"
     /\ (ans.upload # "ok" \/ Len(AlertIdsOf(requests)) < 2) => ans.attach = "ok"}

NoDeliveryYet ==
  [p |-> 0, kind |-> "none", err |-> FALSE, profile |-> "null", timestamp |-> None,
   requests |-> <<>>, rest |-> <<>>, boundary |-> None, prevBoundary |-> 0]

\* this.#onProfile(err, profile, requests); rest is what #requests holds
\* after the call. The handler of createProfileHandler then sends its
\* requests to ICC; a bare callback sends nothing.
Deliver(p, kind, err, profile, timestamp, requests, rest, boundary) ==
  /\ lastDelivery' =
       [p |-> p, kind |-> kind, err |-> err, profile |-> profile,
        timestamp |-> timestamp, requests |-> requests, rest |-> rest,
        boundary |-> boundary, prevBoundary |-> maxBoundary]
  /\ maxBoundary' = IF boundary # None /\ boundary > maxBoundary
                    THEN boundary ELSE maxBoundary
  /\ delivered' = [n \in DOMAIN delivered |->
       IF \E i \in DOMAIN requests : requests[i].n = n
       THEN delivered[n] + 1 ELSE delivered[n]]
  /\ IF prof[p].onProfile = "handler"
     THEN \E ans \in AnswersTo(err, profile, requests) :
            LET callsMade == ProfileHandler(err, profile, requests, ans.upload, ans.attach)
            IN /\ lastCalls' = callsMade
               /\ uploadsFor' = [a \in AlertIds |->
                    uploadsFor[a] + UploadsCarrying(callsMade, a)]
     ELSE /\ lastCalls' = <<>>
          /\ UNCHANGED uploadsFor

\* a step in which this.#onProfile is not called
NoDelivery ==
  /\ lastDelivery' = NoDeliveryYet
  /\ lastCalls' = <<>>
  /\ UNCHANGED <<maxBoundary, delivered, uploadsFor>>

Task(p, kind, n, requests) == [p |-> p, kind |-> kind, n |-> n, requests |-> requests]

\* the Profiler instances, the commands in flight and the counters, as one
\* value that an operation maps to the next
World == [prof |-> prof, inflight |-> inflight, cnt |-> cnt]

SetWorld(W) ==
  /\ prof' = W.prof
  /\ inflight' = W.inflight
  /\ cnt' = W.cnt

\* requestProfile: push the request, cancel the idle stop, and when not
\* profiling run #startProfilingLoop up to its await of startProfiling
requestProfile(W, p, alertId, timestamp) ==
  LET pr == W.prof[p]
      request == [alertId |-> alertId,
                  timestamp |-> IF timestamp = None THEN now ELSE timestamp,
                  n |-> W.cnt.req + 1]
      queued == [pr EXCEPT !.requests = Append(@, request),
                           !.stopProfileTimeout = None]
  IN IF ~pr.isProfiling
     THEN [prof |-> [W.prof EXCEPT ![p] =
                       [queued EXCEPT !.nextProfileTimestamp = now + Duration,
                                      !.isProfiling = TRUE]],
           inflight |-> W.inflight \cup {Task(p, "start", W.cnt.start + 1, <<>>)},
           cnt |-> [W.cnt EXCEPT !.req = @ + 1, !.start = @ + 1]]
     ELSE [prof |-> [W.prof EXCEPT ![p] = queued],
           inflight |-> W.inflight,
           cnt |-> [W.cnt EXCEPT !.req = @ + 1]]

\* what a request adds to the bookkeeping of accepted requests
RequestAccepted ==
  /\ delivered' = Append(delivered, 0)
  /\ lastDelivery' = NoDeliveryYet
  /\ lastCalls' = <<>>
  /\ UNCHANGED <<maxBoundary, uploadsFor>>

stopFrom_Unguarded(W, p, pr) ==
  [prof |-> [W.prof EXCEPT ![p] =
               [pr EXCEPT !.getProfileInterval = None,
                          !.stopProfileTimeout = None,
                          !.nextProfileTimestamp = None,
                          !.requests = <<>>, !.isProfiling = FALSE]],
   inflight |-> W.inflight \cup {Task(p, "stop", W.cnt.stop + 1, pr.requests)},
   cnt |-> [W.cnt EXCEPT !.stop = @ + 1]]

\* stop() up to its await, on the Profiler fields pr: clear both timers
\* and, when profiling, take all requests, clear isProfiling and send
\* stopProfiling
stopFrom(W, p, pr) ==
  LET cleared == [pr EXCEPT !.getProfileInterval = None,
                            !.stopProfileTimeout = None,
                            !.nextProfileTimestamp = None]
  IN IF pr.isProfiling
     THEN [prof |-> [W.prof EXCEPT ![p] =
                       [cleared EXCEPT !.requests = <<>>, !.isProfiling = FALSE]],
           inflight |-> W.inflight \cup {Task(p, "stop", W.cnt.stop + 1, pr.requests)},
           cnt |-> [W.cnt EXCEPT !.stop = @ + 1]]
     ELSE [W EXCEPT !.prof[p] = cleared]

stop(W, p) == stopFrom(W, p, W.prof[p])

\* startProfiling resolves: #startProfilingLoop installs the interval; a
\* handle already stored is overwritten and its interval keeps running
StartProfilingResolved(t) ==
  /\ t \in inflight /\ t.kind = "start"
  /\ inflight' = inflight \ {t}
  /\ prof' = [prof EXCEPT ![t.p] =
        [@ EXCEPT !.getProfileInterval = now + Duration,
                  !.lostIntervals =
                    IF prof[t.p].getProfileInterval = None THEN @
                    ELSE Append(@, prof[t.p].getProfileInterval)]]
  /\ NoDelivery
  /\ UNCHANGED <<now, cnt>>

\* startProfiling rejects: all requests go to the handler with the error
StartProfilingRejected(t) ==
  /\ t \in inflight /\ t.kind = "start"
  /\ inflight' = inflight \ {t}
  /\ prof' = [prof EXCEPT ![t.p].requests = <<>>]
  /\ Deliver(t.p, "start", TRUE, "null", None, prof[t.p].requests, <<>>, None)
  /\ UNCHANGED <<now, cnt>>

\* the interval callback: set nextProfileTimestamp and run #processProfile
\* up to its await of #getProfile
IntervalCallback(p) ==
  /\ cnt.tick < MaxTicks
  /\ cnt' = [cnt EXCEPT !.tick = @ + 1]
  /\ inflight' = inflight \cup {Task(p, "get", cnt.tick + 1, <<>>)}

GetProfileInterval(p) ==
  /\ prof[p].getProfileInterval # None
  /\ now >= prof[p].getProfileInterval
  /\ IntervalCallback(p)
  /\ prof' = [prof EXCEPT ![p] =
        [@ EXCEPT !.getProfileInterval = now + Duration,
                  !.nextProfileTimestamp = now + Duration]]
  /\ NoDelivery
  /\ UNCHANGED now

\* an interval whose handle was overwritten fires
LostInterval(p) ==
  /\ \E i \in DOMAIN prof[p].lostIntervals :
       /\ now >= prof[p].lostIntervals[i]
       /\ prof' = [prof EXCEPT ![p] =
             [@ EXCEPT !.lostIntervals[i] = now + Duration,
                       !.nextProfileTimestamp = now + Duration]]
  /\ IntervalCallback(p)
  /\ NoDelivery
  /\ UNCHANGED now

\* the end of #processProfile: with no request left, #scheduleStopProfiling
\* stores a new timeout; a handle already stored is overwritten
AfterProcessProfile(pr, rest) ==
  IF rest = <<>>
  THEN [pr EXCEPT !.requests = rest,
                  !.stopProfileTimeout = now + Duration \div 2,
                  !.lostTimeouts =
                    IF pr.stopProfileTimeout = None THEN @
                    ELSE Append(@, pr.stopProfileTimeout)]
  ELSE [pr EXCEPT !.requests = rest]

\* the latestProfileTimestamp a worker can report at this time: its latest
\* profile is less than a duration old
ProfileTimestamps == {ts \in 0..now : ts > now - Duration}

\* #getProfile resolves: the requests up to the profile's timestamp go to
\* the handler with the profile
GetProfileResolved(t) ==
  /\ t \in inflight /\ t.kind = "get"
  /\ inflight' = inflight \ {t}
  /\ \E ts \in ProfileTimestamps :
       LET r == getProfileRequests(prof[t.p].requests, ts)
       IN /\ Deliver(t.p, "profile", FALSE, "profile", ts, r.matched, r.rest, t.n)
          /\ prof' = [prof EXCEPT ![t.p] = AfterProcessProfile(@, r.rest)]
  /\ UNCHANGED <<now, cnt>>

GetProfileRejected_OldestOnly(t) ==
  /\ t \in inflight /\ t.kind = "get"
  /\ inflight' = inflight \ {t}
  /\ LET reqs == prof[t.p].requests
         first == IF reqs = <<>> THEN <<>> ELSE <<Head(reqs)>>
         rest == IF reqs = <<>> THEN <<>> ELSE Tail(reqs)
     IN /\ Deliver(t.p, "profile", TRUE, "null", None, first, rest, t.n)
        /\ prof' = [prof EXCEPT ![t.p] = AfterProcessProfile(@, rest)]
  /\ UNCHANGED <<now, cnt>>

\* #getProfile rejects: all requests go to the handler with the error
GetProfileRejected(t) ==
  /\ t \in inflight /\ t.kind = "get"
  /\ inflight' = inflight \ {t}
  /\ Deliver(t.p, "profile", TRUE, "null", None, prof[t.p].requests, <<>>, t.n)
  /\ prof' = [prof EXCEPT ![t.p] = AfterProcessProfile(@, <<>>)]
  /\ UNCHANGED <<now, cnt>>

\* the idle-stop timeout fires and calls stop()
StopProfileTimeout(p) ==
  /\ prof[p].stopProfileTimeout # None
  /\ now >= prof[p].stopProfileTimeout
  /\ SetWorld(stop(World, p))
  /\ NoDelivery
  /\ UNCHANGED now

\* an idle-stop timeout whose handle was overwritten fires and calls stop()
LostTimeout(p) ==
  /\ \E i \in DOMAIN prof[p].lostTimeouts :
       /\ now >= prof[p].lostTimeouts[i]
       /\ SetWorld(stopFrom(World, p, [prof[p] EXCEPT !.lostTimeouts = RemoveAt(@, i)]))
  /\ NoDelivery
  /\ UNCHANGED now

StopDelivery_ErrorOnFailure(t, ok) ==
  IF t.requests = <<>> THEN NoDelivery
  ELSE IF ok
       THEN Deliver(t.p, "stop", FALSE, "profile", None, t.requests, prof[t.p].requests, None)
       ELSE Deliver(t.p, "stop", TRUE, "null", None, t.requests, prof[t.p].requests, None)

\* the rest of stop() once #stopProfiling returns: #stopProfiling catches a
\* rejection and returns undefined, so the handler gets (null, profile,
\* requests) either way
StopDelivery(t, ok) ==
  IF t.requests = <<>> THEN NoDelivery
  ELSE Deliver(t.p, "stop", FALSE, IF ok THEN "profile" ELSE "undefined",
               None, t.requests, prof[t.p].requests, None)

\* stopProfiling resolves or rejects
StopProfilingDone(t) ==
  /\ t \in inflight /\ t.kind = "stop"
  /\ inflight' = inflight \ {t}
  /\ \E ok \in BOOLEAN : StopDelivery(t, ok)
  /\ UNCHANGED <<now, prof, cnt>>

\* the timestamps a caller passes in a request of its own
CustomTimestamps == {3}

\* a caller holding the Profiler calls requestProfile, with or without a
\* timestamp of its own
RequestProfileCall ==
  /\ cnt.req < MaxRequests
  /\ \E timestamp \in CustomTimestamps \cup {None} :
       SetWorld(requestProfile(World, 1, "a1", timestamp))
  /\ RequestAccepted
  /\ UNCHANGED now

\* a caller holding the Profiler calls stop()
StopCall ==
  /\ cnt.stop < MaxStops
  /\ SetWorld(stop(World, 1))
  /\ NoDelivery
  /\ UNCHANGED now

\* time passes
ProfTick ==
  /\ now < MaxProfTime
  /\ now' = now + 1

ProfilerIdle ==
  /\ prof = [p \in ProfIds |-> NoProfiler]
  /\ inflight = {}
  /\ cnt = [req |-> 0, tick |-> 0, stop |-> 0, start |-> 0, call |-> 0, pause |-> 0, churn |-> 0]
  /\ lastDelivery = NoDeliveryYet
  /\ maxBoundary = 0
  /\ delivered = <<>>
  /\ lastCalls = <<>>
  /\ uploadsFor = [a \in AlertIds |-> 0]

\* one Profiler, constructed with a callback as the unit tests do
InitProfiler ==
  /\ prof = [p \in ProfIds |->
       IF p = 1 THEN NewProfiler("main:0", "cpu", "callback") ELSE NoProfiler]
  /\ inflight = {}
  /\ cnt = [req |-> 0, tick |-> 0, stop |-> 0, start |-> 0, call |-> 0, pause |-> 0, churn |-> 0]
  /\ lastDelivery = NoDeliveryYet
  /\ maxBoundary = 0
  /\ delivered = <<>>
  /\ lastCalls = <<>>
  /\ uploadsFor = [a \in AlertIds |-> 0]

MaxDeliveries == 2
MaxSinkRequests == 3

\* what onProfile can be called with: an error, a profile, or the undefined
\* that stop() passes when stopProfiling failed
Outcomes ==
  {[err |-> TRUE, profile |-> "null"],
   [err |-> FALSE, profile |-> "profile"],
   [err |-> FALSE, profile |-> "undefined"]}

\* all sequences over S of length 0..n
RECURSIVE SeqsOver(_, _)
SeqsOver(S, n) ==
  IF n = 0 THEN {<<>>}
  ELSE LET shorter == SeqsOver(S, n - 1)
       IN shorter \cup {Append(s, x) : s \in {t \in shorter : Len(t) = n - 1}, x \in S}

\* a Profiler calls the handler of createProfileHandler with some outcome
\* and some requests, with or without alertIds; MaxSinkRequests requests
\* are passed in all
OnProfileCall ==
  /\ cnt.tick < MaxDeliveries
  /\ \E o \in Outcomes, ids \in SeqsOver(AlertIds \cup {NoAlert}, MaxSinkRequests - cnt.req) :
     /\ cnt' = [cnt EXCEPT !.tick = @ + 1, !.req = @ + Len(ids)]
     /\ Deliver(1, "profile", o.err, o.profile, IF o.profile = "profile" THEN now ELSE None,
               [i \in 1..Len(ids) |-> [alertId |-> ids[i], timestamp |-> now, n |-> i]],
               <<>>, cnt.tick + 1)
  /\ UNCHANGED <<now, prof, inflight>>

\* one Profiler, constructed as requestFlamegraphs does, with the handler of
\* createProfileHandler
InitSink ==
  /\ prof = [p \in ProfIds |->
       IF p = 1 THEN NewProfiler("s1:0", "cpu", "handler") ELSE NoProfiler]
  /\ inflight = {}
  /\ cnt = [req |-> 0, tick |-> 0, stop |-> 0, start |-> 0, call |-> 0, pause |-> 0, churn |-> 0]
  /\ lastDelivery = NoDeliveryYet
  /\ maxBoundary = 0
  /\ delivered = <<>>
  /\ lastCalls = <<>>
  /\ uploadsFor = [a \in AlertIds |-> 0]

----------------------------------------------------------------------------
(* flamegraphs plugin: the registry of Profilers, requestFlamegraphs and    *)
(* pauseProfiling (plugins/flamegraphs.js)                                  *)

Services == {"s1"}
\* the profile types requested: alerts.js leaves profileType to its default
Types == {"cpu"}

\* the workers of the service in the order runtime.getWorkers() lists them
WorkerOrder == <<"s1:0", "s1:1">>
WorkerIds == {WorkerOrder[i] : i \in DOMAIN WorkerOrder}

\* the alertIds requestFlamegraphs is called with
FlameAlertIds == {"a1"}

\* the calls of requestFlamegraphs and pauseProfiling and the worker exits
\* followed, in all and of each kind
MaxCalls == 3
MaxFlameTime == 3
MaxPauses == MaxCalls \div 2
MaxChurn == MaxCalls \div 2

\* PLT_FLAMEGRAPHS_PAUSE_TIMEOUT, the timeout alerts.js passes to
\* pauseProfiling, in clock units
PauseTimeout == 1

\* profilers[serviceId][profileType], 0 when the key is absent; the
\* registry keeps its keys in insertion order
Lookup(reg, type) ==
  IF \E i \in DOMAIN reg : reg[i].type = type
  THEN (CHOOSE e \in {reg[i] : i \in DOMAIN reg} : e.type = type).p
  ELSE 0

\* the keys of profilers[serviceId], in insertion order
RECURSIVE KeysOf(_)
KeysOf(reg) ==
  IF reg = <<>> THEN <<>> ELSE <<Head(reg).type>> \o KeysOf(Tail(reg))

\* servicesWorkers[serviceId][0]
FirstWorker(ws) ==
  WorkerOrder[CHOOSE i \in DOMAIN WorkerOrder :
                /\ WorkerOrder[i] \in ws
                /\ \A j \in DOMAIN WorkerOrder : WorkerOrder[j] \in ws => i <= j]

isProfilingPaused_Never(serviceId) == FALSE

isProfilingPaused_Inclusive(serviceId) ==
  /\ profilersPauseReqs[serviceId] # None
  /\ profilersPauseReqs[serviceId] >= now

\* isProfilingPaused(serviceId).isPaused
isProfilingPaused(serviceId) ==
  /\ profilersPauseReqs[serviceId] # None
  /\ profilersPauseReqs[serviceId] > now

Failover_NoStop(W, reg, ws) ==
  [W |-> W, reg |-> SelectSeq(reg, LAMBDA e : W.prof[e.p].workerId \in ws)]

\* the loop of requestFlamegraphs over the registry: a Profiler whose
\* worker is no longer listed is stopped, without awaiting, when it is
\* profiling, and its key is deleted
RECURSIVE Failover(_, _, _)
Failover(W, reg, ws) ==
  IF reg = <<>> THEN [W |-> W, reg |-> <<>>]
  ELSE LET e == Head(reg)
       IN IF W.prof[e.p].workerId \in ws
          THEN LET r == Failover(W, Tail(reg), ws)
               IN [W |-> r.W, reg |-> <<e>> \o r.reg]
          ELSE Failover(IF W.prof[e.p].isProfiling THEN stop(W, e.p) ELSE W,
                        Tail(reg), ws)

NeedsProfiler_Always(reg, type) == TRUE

\* if (!profiler)
NeedsProfiler(reg, type) == Lookup(reg, type) = 0

\* the next Profiler instance to be constructed
NextProfId == Cardinality({p \in ProfIds : prof[p].created}) + 1

\* requestFlamegraphs({ serviceIds: [serviceId], alertId, profileType }) up
\* to its await of runtime.getWorkers()
RequestFlamegraphsCall ==
  /\ cnt.call + cnt.pause + cnt.churn < MaxCalls
  /\ \E serviceId \in Services, alertId \in FlameAlertIds, profileType \in Types :
       calls' = calls (+) SetToBag(
         {[kind |-> "request", serviceId |-> serviceId,
           alertId |-> alertId, profileType |-> profileType,
           remaining |-> <<>>, awaiting |-> 0]})
  /\ cnt' = [cnt EXCEPT !.call = @ + 1]
  /\ NoDelivery
  /\ UNCHANGED <<now, prof, inflight, profilers, profilersPauseReqs,
                 workers, icc>>

\* requestFlamegraphs once getWorkers() has answered: the failover loop,
\* the pause check, the lookup or construction of the Profiler, and
\* requestProfile
RequestFlamegraphsResume(c) ==
  /\ BagIn(c, calls) /\ c.kind = "request"
  /\ calls' = calls (-) SetToBag({c})
  /\ LET f == [s \in Services |-> Failover(World, profilers[s], workers)]
         W1 == f[c.serviceId].W
         reg1 == f[c.serviceId].reg
     IN IF isProfilingPaused(c.serviceId)
        THEN /\ SetWorld(W1)
             /\ profilers' = [profilers EXCEPT ![c.serviceId] = reg1]
             /\ NoDelivery
        ELSE IF ~NeedsProfiler(reg1, c.profileType)
        THEN /\ SetWorld(requestProfile(W1, Lookup(reg1, c.profileType), c.alertId, None))
             /\ profilers' = [profilers EXCEPT ![c.serviceId] = reg1]
             /\ RequestAccepted
        ELSE IF workers = {}
        THEN \* servicesWorkers[serviceId] is undefined: reading [0] throws
             /\ SetWorld(W1)
             /\ profilers' = [profilers EXCEPT ![c.serviceId] = reg1]
             /\ NoDelivery
        ELSE /\ NextProfId \in ProfIds
             /\ LET p == NextProfId
                    W2 == [W1 EXCEPT !.prof[p] =
                             NewProfiler(FirstWorker(workers), c.profileType, "handler")]
                    kept == SelectSeq(reg1, LAMBDA e : e.type # c.profileType)
                IN /\ SetWorld(requestProfile(W2, p, c.alertId, None))
                   /\ profilers' = [profilers EXCEPT ![c.serviceId] =
                        Append(kept, [type |-> c.profileType, p |-> p])]
             /\ RequestAccepted
  /\ UNCHANGED <<now, profilersPauseReqs, workers, icc>>

\* the for-in loop of pauseProfiling over the keys still to visit: stop()
\* of a Profiler that is not profiling returns at once and the loop goes
\* on; stop() of a profiling one suspends the loop at its stopProfiling
RECURSIVE PauseLoop(_, _, _, _)
PauseLoop(W, reg, serviceId, remaining) ==
  IF remaining = <<>> THEN [W |-> W, suspended |-> {}]
  ELSE LET p == Lookup(reg, Head(remaining))
       IN IF p = 0 THEN PauseLoop(W, reg, serviceId, Tail(remaining))
          ELSE IF W.prof[p].isProfiling
          THEN [W |-> stop(W, p),
                suspended |->
                  {[kind |-> "pause", serviceId |-> serviceId,
                    alertId |-> NoAlert, profileType |-> "",
                    remaining |-> Tail(remaining), awaiting |-> W.cnt.stop + 1]}]
          ELSE PauseLoop(stop(W, p), reg, serviceId, Tail(remaining))

\* pauseProfiling({ serviceId, timeout }) up to its first await that waits
PauseProfilingCall ==
  /\ cnt.call + cnt.pause + cnt.churn < MaxCalls
  /\ cnt.pause < MaxPauses
  /\ \E serviceId \in Services :
       /\ profilersPauseReqs' =
            [profilersPauseReqs EXCEPT ![serviceId] = PauseTimeout + now]
       /\ LET r == PauseLoop([World EXCEPT !.cnt.pause = @ + 1],
                             profilers[serviceId], serviceId,
                             KeysOf(profilers[serviceId]))
          IN /\ SetWorld(r.W)
             /\ calls' = calls (+) SetToBag(r.suspended)
  /\ NoDelivery
  /\ UNCHANGED <<now, profilers, workers, icc>>

\* stopProfiling answers a stop() that no pauseProfiling awaits
StopProfilingDoneUnawaited(t) ==
  /\ ~ \E c \in BagToSet(calls) : c.kind = "pause" /\ c.awaiting = t.n
  /\ StopProfilingDone(t)
  /\ UNCHANGED <<profilers, profilersPauseReqs, workers, calls, icc>>

\* stopProfiling answers the stop() a pauseProfiling awaits: stop()
\* delivers, then the loop of pauseProfiling goes on
PauseProfilingResumed(t) ==
  /\ t \in inflight /\ t.kind = "stop"
  /\ \E c \in BagToSet(calls) :
       /\ c.kind = "pause" /\ c.awaiting = t.n
       /\ LET r == PauseLoop([World EXCEPT !.inflight = @ \ {t}],
                             profilers[c.serviceId], c.serviceId, c.remaining)
          IN /\ SetWorld(r.W)
             /\ calls' = (calls (-) SetToBag({c})) (+) SetToBag(r.suspended)
  /\ \E ok \in BOOLEAN : StopDelivery(t, ok)
  /\ UNCHANGED <<now, profilers, profilersPauseReqs, workers, icc>>

\* a worker of the service exits
WorkerExit(w) ==
  /\ cnt.call + cnt.pause + cnt.churn < MaxCalls
  /\ cnt.churn < MaxChurn
  /\ w \in workers
  /\ workers' = workers \ {w}
  /\ cnt' = [cnt EXCEPT !.churn = @ + 1]
  /\ NoDelivery
  /\ UNCHANGED <<now, prof, inflight, profilers, profilersPauseReqs,
                 calls, icc>>

\* time passes
FlameTick ==
  /\ now < MaxFlameTime
  /\ now' = now + 1

FlameIdle ==
  /\ profilers = [s \in Services |-> <<>>]
  /\ profilersPauseReqs = [s \in Services |-> None]
  /\ workers = {}
  /\ calls = EmptyBag
  /\ icc = "up"

\* the plugin after setupFlamegraphs: no Profiler yet, every worker up
InitFlame ==
  /\ profilers = [s \in Services |-> <<>>]
  /\ profilersPauseReqs = [s \in Services |-> None]
  /\ workers = WorkerIds
  /\ calls = EmptyBag
  /\ icc = "up"

\* no plugin activity; ICC may fail any request
SinkIdle ==
  /\ profilers = [s \in Services |-> <<>>]
  /\ profilersPauseReqs = [s \in Services |-> None]
  /\ workers = {}
  /\ calls = EmptyBag
  /\ icc = "any"

----------------------------------------------------------------------------
(* control channel: the updates websocket (plugins/update.js)               *)

VARIABLES
  socket,           \* the variable socket: 0 is null, else the WebSocket it refers to
  conns,            \* every WebSocket constructed so far
  connects,         \* bag of connectToUpdates invocations suspended at an await
  isReconnecting,
  isClosing,
  sleeps            \* bag of reconnectToUpdates invocations suspended at sleep(reconnectInterval)

updateVars == <<socket, conns, connects, isReconnecting, isClosing, sleeps>>

MaxConns == 3
MaxErrors == 2
MaxMessages == 3
MaxHandlers == 2

ConnIds == 1..MaxConns

RECURSIVE SumOver(_, _)
SumOver(f, S) ==
  IF S = {} THEN 0
  ELSE LET x == CHOOSE y \in S : TRUE IN f[x] + SumOver(f, S \ {x})

\* the 'error' events and the frames of all WebSockets so far
ErrorsSoFar == SumOver([c \in ConnIds |-> conns[c].errors], ConnIds)
FramesSoFar == SumOver([c \in ConnIds |-> conns[c].received], ConnIds)

\* what ICC sends as a frame: the acknowledgment or anything else
Frames == {"ack", "other"}

\* a WebSocket not constructed yet
NoConn ==
  [state |-> "none", cause |-> None, handlers |-> 0, errors |-> 0,
   received |-> 0, first |-> "none", subscribes |-> 0, dispatch |-> "none"]

\* new WebSocket(wsUrl, { headers }); cause is the WebSocket whose error or
\* close event led to this connection, None for any other origin
NewConn(cause) == [NoConn EXCEPT !.state = "connecting", !.cause = cause]

Connect(phase, sock, cause) == [phase |-> phase, sock |-> sock, cause |-> cause]

\* the flags and sleeps reconnectToUpdates works on, as one value
Reconn == [isReconnecting |-> isReconnecting, sleeps |-> sleeps]

SetReconn(R) ==
  /\ isReconnecting' = R.isReconnecting
  /\ sleeps' = R.sleeps

\* if (isReconnecting || isClosing) return
ReconnectGuard(R) == R.isReconnecting \/ isClosing

\* reconnectToUpdates() up to its await of sleep(reconnectInterval)
reconnectToUpdates(R, cause) ==
  IF ReconnectGuard(R) THEN R
  ELSE [isReconnecting |-> TRUE, sleeps |-> R.sleeps (+) SetToBag({[cause |-> cause]})]

\* reconnectToUpdates() called, or not, by the listeners and catch blocks of one turn
ReconnectIf(called, R, cause) == IF called THEN reconnectToUpdates(R, cause) ELSE R

\* the copies of the invocations of the bag b that satisfy Test, removed
Without(b, Test(_)) ==
  [t \in {u \in BagToSet(b) : ~Test(u)} |-> b[t]]

HowMany(b, Test(_)) ==
  BagCardinality([t \in {u \in BagToSet(b) : Test(u)} |-> b[t]])

Min(a, b) == IF a < b THEN a ELSE b

\* message?.command !== 'ack'
IsAck(frame) == frame = "ack"

\* sleep(reconnectInterval) is over: isReconnecting is cleared and
\* connectToUpdates() runs up to its await of getAuthorizationHeader()
SleepDone(s) ==
  /\ BagIn(s, sleeps)
  /\ sleeps' = sleeps (-) SetToBag({s})
  /\ isReconnecting' = FALSE
  /\ connects' = connects (+) SetToBag({Connect("auth", 0, s.cause)})
  /\ UNCHANGED <<socket, conns, isClosing>>

\* getAuthorizationHeader() resolves: the WebSocket is constructed and
\* assigned to socket, and the invocation awaits its 'open'
AuthResolved(t) ==
  /\ BagIn(t, connects) /\ t.phase = "auth"
  /\ \E n \in ConnIds :
       /\ conns[n].state = "none"
       /\ \A m \in ConnIds : m < n => conns[m].state # "none"
       /\ conns' = [conns EXCEPT ![n] = NewConn(t.cause)]
       /\ socket' = n
       /\ connects' = (connects (-) SetToBag({t})) (+) SetToBag({Connect("open", n, t.cause)})
  /\ UNCHANGED <<isReconnecting, isClosing, sleeps>>

\* getAuthorizationHeader() rejects: the catch block calls reconnectToUpdates()
AuthRejected(t) ==
  /\ BagIn(t, connects) /\ t.phase = "auth"
  /\ connects' = connects (-) SetToBag({t})
  /\ SetReconn(reconnectToUpdates(Reconn, t.cause))
  /\ UNCHANGED <<socket, conns, isClosing>>

\* 'open' on WebSocket c: the invocation awaiting it sends the subscribe
\* command on socket and awaits the first 'message' of socket; send throws
\* when socket is null or still connecting
SocketOpen(c) ==
  /\ conns[c].state = "connecting"
  /\ LET waiting(t) == t.phase = "open" /\ t.sock = c
         n == HowMany(connects, waiting)
         throws == socket = 0 \/ (socket # c /\ conns[socket].state = "connecting")
     IN /\ conns' = [d \in ConnIds |->
             IF d = c
             THEN [conns[c] EXCEPT !.state = "open",
                     !.subscribes = IF n > 0 /\ socket = c THEN @ + n ELSE @]
             ELSE IF n > 0 /\ d = socket /\ ~throws
             THEN [conns[d] EXCEPT !.subscribes = @ + n]
             ELSE conns[d]]
        /\ connects' =
             IF n = 0 \/ throws THEN Without(connects, waiting)
             ELSE Without(connects, waiting)
                    (+) [t \in {Connect("message", socket, None)} |-> n]
        /\ SetReconn(ReconnectIf(n > 0 /\ throws, Reconn, None))
  /\ UNCHANGED <<socket, isClosing>>

\* a frame arrives on WebSocket c: the listeners attached after an ack pass
\* it to processMessage; every invocation awaiting the first message of c
\* resumes, attaches the listeners to socket when the frame is an ack and
\* throws into its catch block otherwise
SocketMessage(c, frame) ==
  /\ conns[c].state = "open"
  /\ FramesSoFar < MaxMessages
  /\ LET waiting(t) == t.phase = "message" /\ t.sock = c
         n == HowMany(connects, waiting)
         attaches == n > 0 /\ IsAck(frame) /\ socket # 0
         throws == n > 0 /\ (~IsAck(frame) \/ socket = 0)
         seen == [conns[c] EXCEPT
                    !.received = @ + 1,
                    !.first = IF conns[c].received = 0 THEN frame ELSE @,
                    !.dispatch =
                      IF conns[c].handlers = 0 THEN @
                      ELSE IF conns[c].received = 0 \/ conns[c].first # "ack"
                      THEN "early"
                      ELSE IF @ = "early" THEN @ ELSE "later"]
         afterSeen == [conns EXCEPT ![c] = seen]
     IN /\ conns' = IF attaches
                    THEN [afterSeen EXCEPT ![socket].handlers = Min(@ + n, MaxHandlers)]
                    ELSE afterSeen
        /\ connects' = Without(connects, waiting)
        /\ SetReconn(ReconnectIf(throws, Reconn, None))
  /\ UNCHANGED <<socket, isClosing>>

\* something listens for 'error' on WebSocket c; an 'error' nobody listens
\* for ends the process
ErrorListened(c) ==
  \/ conns[c].handlers > 0
  \/ \E t \in BagToSet(connects) : t.phase \in {"open", "message"} /\ t.sock = c

\* 'error' on WebSocket c: the listeners attached after an ack call
\* reconnectToUpdates(), and every once() pending on c rejects into the
\* catch block, which calls it too
SocketError(c) ==
  /\ conns[c].state \in {"connecting", "open"}
  /\ ErrorsSoFar < MaxErrors
  /\ ErrorListened(c)
  /\ LET waiting(t) == t.phase \in {"open", "message"} /\ t.sock = c
     IN /\ connects' = Without(connects, waiting)
        /\ SetReconn(reconnectToUpdates(Reconn, c))
  /\ conns' = [conns EXCEPT ![c].errors = @ + 1]
  /\ UNCHANGED <<socket, isClosing>>

\* 'close' on WebSocket c: the listeners attached after an ack call
\* reconnectToUpdates(); a once() pending on c stays pending for ever
SocketClose(c) ==
  /\ conns[c].state \in {"connecting", "open"}
  /\ LET waiting(t) == t.phase \in {"open", "message"} /\ t.sock = c
     IN connects' = Without(connects, waiting)
  /\ conns' = [conns EXCEPT ![c].state = "closed"]
  /\ SetReconn(ReconnectIf(conns[c].handlers > 0, Reconn, c))
  /\ UNCHANGED <<socket, isClosing>>

\* app.closeUpdates()
CloseUpdates ==
  /\ ~isClosing
  /\ isClosing' = TRUE
  /\ socket' = 0
  /\ UNCHANGED <<conns, connects, isReconnecting, sleeps>>

UpdatesIdle ==
  /\ socket = 0
  /\ conns = [c \in ConnIds |-> NoConn]
  /\ connects = EmptyBag
  /\ isReconnecting = FALSE
  /\ isClosing = FALSE
  /\ sleeps = EmptyBag

\* the plugin after the first app.connectToUpdates(), which awaits
\* getAuthorizationHeader()
InitUpdates ==
  /\ socket = 0
  /\ conns = [c \in ConnIds |-> NoConn]
  /\ connects = SetToBag({Connect("auth", 0, None)})
  /\ isReconnecting = FALSE
  /\ isClosing = FALSE
  /\ sleeps = EmptyBag

----------------------------------------------------------------------------
(* health signals: HealthSignalsCache and the batcher                       *)
(* (plugins/health-signals.js)                                              *)

VARIABLES
  signalsByService, \* HealthSignalsCache: (service, signal type, worker) -> [timestamp, value] entries
  added,            \* per buffer, how many entries were added since the last getAllSignals()
  samples,          \* how many health metrics events so far
  batchStartedAt,   \* None when no batch is open
  batchHasHighValue,
  posts,            \* sendHealthSignals invocations whose POST /signals is not answered yet
  lastTick,         \* "noop" | "flush" when the step just taken was the interval callback, else "none"
  lastPost          \* the POST /signals answered by the step just taken

signalVars ==
  <<signalsByService, added, samples, batchStartedAt, batchHasHighValue, posts, lastTick,
    lastPost>>

\* #maxSize
maxSize == 500

SignalServices == {"main"}
SignalTypes == {"elu", "heap", "custom"}
SignalWorkers == {"main:0"}
SignalKeys == SignalServices \X SignalTypes \X SignalWorkers

\* PLT_ELU_HEALTH_SIGNAL_THRESHOLD, in hundredths
eluThreshold == 80
\* heapThresholdMb: PLT_HEAP_HEALTH_SIGNAL_THRESHOLD rounded to MiB
heapThresholdMb == 2
\* PLT_HEALTH_SIGNALS_SHORT_BATCH_TIMEOUT and
\* PLT_HEALTH_SIGNALS_LONG_BATCH_TIMEOUT, in clock units
batchShortTimeout == 1
batchLongTimeout == 3

MaxSamples == 2
MaxSigTime == 4
MaxPosts == 1
MaxCacheAdds == 502

EmptyCache == [k \in SignalKeys |-> <<>>]

\* values.push([timestamp, value]) and the splice that keeps the newest
\* #maxSize entries
Capped_KeepOldest(values) ==
  IF Len(values) > maxSize THEN SubSeq(values, 1, maxSize) ELSE values

Capped(values) ==
  IF Len(values) > maxSize
  THEN SubSeq(values, Len(values) - maxSize + 1, Len(values))
  ELSE values

\* addServiceSignal(serviceId, signalType, signal)
addServiceSignal(cache, serviceId, signalType, signal) ==
  LET key == <<serviceId, signalType, signal.workerId>>
  IN [cache EXCEPT ![key] = Capped(Append(@, <<signal.timestamp, signal.value>>))]

\* addServiceSignals(serviceId, signals)
RECURSIVE addServiceSignals(_, _, _)
addServiceSignals(cache, serviceId, signals) ==
  IF signals = <<>> THEN cache
  ELSE addServiceSignals(
         addServiceSignal(cache, serviceId, Head(signals).type, Head(signals)),
         serviceId, Tail(signals))

\* Math.round(heapUsed / 1024 / 1024), heapUsed in halves of a MiB
HeapUsedMb(heapUsed) == (heapUsed + 1) \div 2

\* the health metrics a worker can report: ELU in hundredths, heapUsed in
\* halves of a MiB
HealthValues ==
  {[elu |-> 10, heapUsed |-> 4], [elu |-> 80, heapUsed |-> 4],
   [elu |-> 81, heapUsed |-> 3], [elu |-> 10, heapUsed |-> 5]}

\* the healthSignals a health metrics event can carry
CustomSignals(workerId, timestamp) ==
  {<<>>,
   <<[type |-> "custom", workerId |-> workerId, value |-> 99, timestamp |-> timestamp]>>}


\* elu > eluThreshold || heapUsedMb > heapThresholdMb
IsHighValue(elu, heapUsedMb) == elu > eluThreshold \/ heapUsedMb > heapThresholdMb

BatchTimeout_AlwaysLong(hasHighValue) == batchLongTimeout

\* batchHasHighValue ? batchShortTimeout : batchLongTimeout
BatchTimeout(hasHighValue) ==
  IF hasHighValue THEN batchShortTimeout ELSE batchLongTimeout

NoTick == "none"
NoPost == [result |-> "none", signals |-> EmptyCache, batchStartedAt |-> None]

\* the listener of 'application:worker:health:metrics'
HealthMetrics ==
  /\ samples < MaxSamples
  /\ samples' = samples + 1
  /\ \E workerId \in SignalWorkers, h \in HealthValues :
     \E healthSignals \in CustomSignals(workerId, now) :
       LET heapUsedMb == HeapUsedMb(h.heapUsed)
           c1 == addServiceSignal(signalsByService, "main", "elu",
                   [workerId |-> workerId, value |-> h.elu, timestamp |-> now])
           c2 == addServiceSignal(c1, "main", "heap",
                   [workerId |-> workerId, value |-> heapUsedMb, timestamp |-> now])
           c3 == addServiceSignals(c2, "main", healthSignals)
       IN /\ signalsByService' = c3
          /\ added' = [k \in SignalKeys |->
               IF k[3] = workerId /\ (k[2] # "custom" \/ healthSignals # <<>>)
               THEN added[k] + 1 ELSE added[k]]
          /\ batchHasHighValue' =
               IF IsHighValue(h.elu, heapUsedMb) THEN TRUE ELSE batchHasHighValue
  /\ batchStartedAt' = IF batchStartedAt = None THEN now ELSE batchStartedAt
  /\ lastTick' = NoTick
  /\ lastPost' = NoPost
  /\ UNCHANGED <<now, posts>>

\* the callback of setInterval(..., 1000): a flush when the open batch is
\* older than its timeout. sendHealthSignals runs up to its POST.
FlushTimer ==
  /\ IF batchStartedAt = None
     THEN /\ lastTick' = "noop"
          /\ UNCHANGED <<signalsByService, added, batchStartedAt, batchHasHighValue, posts>>
     ELSE IF now - batchStartedAt >= BatchTimeout(batchHasHighValue)
     THEN /\ lastTick' = "flush"
          /\ batchHasHighValue' = FALSE
          /\ signalsByService' = EmptyCache
          /\ added' = [k \in SignalKeys |-> 0]
          /\ posts' = posts \cup
               {[signals |-> signalsByService, batchStartedAt |-> batchStartedAt]}
          /\ batchStartedAt' = now
     ELSE /\ lastTick' = "noop"
          /\ UNCHANGED <<signalsByService, added, batchStartedAt, batchHasHighValue, posts>>
  /\ lastPost' = NoPost
  /\ UNCHANGED <<now, samples>>

\* POST /signals answers 200
PostAnswered(p) ==
  /\ p \in posts
  /\ posts' = posts \ {p}
  /\ lastPost' = [result |-> "ok", signals |-> p.signals, batchStartedAt |-> p.batchStartedAt]
  /\ lastTick' = NoTick
  /\ UNCHANGED <<now, signalsByService, added, samples, batchStartedAt, batchHasHighValue>>

\* POST /signals answers another status, or the request fails: the error
\* is logged
PostFailed(p) ==
  /\ p \in posts
  /\ posts' = posts \ {p}
  /\ lastPost' = [result |-> "failed", signals |-> p.signals, batchStartedAt |-> p.batchStartedAt]
  /\ lastTick' = NoTick
  /\ UNCHANGED <<now, signalsByService, added, samples, batchStartedAt, batchHasHighValue>>

\* time passes; ICC leaves at most MaxPosts requests unanswered that long
SignalsTick ==
  /\ now < MaxSigTime
  /\ Cardinality(posts) < MaxPosts
  /\ now' = now + 1
  /\ lastTick' = NoTick
  /\ lastPost' = NoPost
  /\ UNCHANGED <<signalsByService, added, samples, batchStartedAt, batchHasHighValue, posts>>

\* a caller of HealthSignalsCache adds one signal, stamped with its rank
\* among the signals of its buffer
AddServiceSignalCall(key) ==
  /\ SumOver(added, SignalKeys) < MaxCacheAdds
  /\ signalsByService' =
       addServiceSignal(signalsByService, key[1], key[2],
         [workerId |-> key[3], value |-> 0, timestamp |-> added[key] + 1])
  /\ added' = [added EXCEPT ![key] = @ + 1]
  /\ UNCHANGED <<now, samples, batchStartedAt, batchHasHighValue, posts, lastTick, lastPost>>

\* getAllSignals()
GetAllSignalsCall ==
  /\ signalsByService # EmptyCache
  /\ signalsByService' = EmptyCache
  /\ added' = [k \in SignalKeys |-> 0]
  /\ UNCHANGED <<now, samples, batchStartedAt, batchHasHighValue, posts, lastTick, lastPost>>

\* the plugin after setupHealthSignals()
InitSignals ==
  /\ signalsByService = EmptyCache
  /\ added = [k \in SignalKeys |-> 0]
  /\ samples = 0
  /\ batchStartedAt = None
  /\ batchHasHighValue = FALSE
  /\ posts = {}
  /\ lastTick = NoTick
  /\ lastPost = NoPost

----------------------------------------------------------------------------
(* scaling algorithm: the ELU window #appsELUs (lib/scaling-algorithm.js)   *)

VARIABLES
  appsELUs,         \* #appsELUs: application -> worker -> { elu, timestamp } entries
  lastRead          \* the entries the #calculateAppELU of the step just taken averaged

windowVars == <<appsELUs, lastRead>>

\* options.timeWindowSec, in clock units
timeWindowSec == 2

WindowApps == {"A"}
WindowWorkers == {"A:0", "A:1"}

MaxWindowSamples == 3
MaxWindowTime == 4

NoRead == [applicationId |-> "", entries |-> [w \in WindowWorkers |-> <<>>]]

\* the entries of all workers of all applications
SamplesHeld ==
  SumOver([a \in WindowApps |->
             SumOver([w \in WindowWorkers |-> Len(appsELUs[a][w])], WindowWorkers)],
          WindowApps)

\* the for loop of #removeOutdatedAppELUs over one worker's entries: at the
\* first entry older than the window, splice(0, i) removes the i entries
\* before it
RemoveOutdatedOf(workerELUs, at) ==
  LET outdated == {i \in DOMAIN workerELUs : workerELUs[i].timestamp < at - timeWindowSec}
  IN IF outdated = {} THEN workerELUs
     ELSE LET first == CHOOSE i \in outdated : \A j \in outdated : i <= j
          IN SubSeq(workerELUs, first, Len(workerELUs))

\* #removeOutdatedAppELUs(applicationId); a worker without entries has no key
removeOutdatedAppELUs(ELUs, applicationId, at) ==
  [ELUs EXCEPT ![applicationId] =
     [w \in WindowWorkers |-> RemoveOutdatedOf(ELUs[applicationId][w], at)]]

\* processWorkerHealthInfo(healthInfo)
ProcessWorkerHealthInfo ==
  /\ SamplesHeld < MaxWindowSamples
  /\ \E applicationId \in WindowApps, workerId \in WindowWorkers, elu \in {10, 90} :
       appsELUs' =
         removeOutdatedAppELUs(
           [appsELUs EXCEPT ![applicationId][workerId] =
              Append(@, [elu |-> elu, timestamp |-> now])],
           applicationId, now)
  /\ lastRead' = NoRead
  /\ UNCHANGED now

\* #calculateAppELU(applicationId), as getRecommendations calls it for the
\* application of a worker: the entries left by #removeOutdatedAppELUs are
\* averaged per worker
CalculateAppELU ==
  /\ \E applicationId \in WindowApps :
       LET kept == removeOutdatedAppELUs(appsELUs, applicationId, now)
       IN /\ appsELUs' = kept
          /\ lastRead' = [applicationId |-> applicationId, entries |-> kept[applicationId]]
  /\ UNCHANGED now

\* time passes
WindowTick ==
  /\ now < MaxWindowTime
  /\ now' = now + 1
  /\ lastRead' = NoRead
  /\ UNCHANGED appsELUs

\* the algorithm after its constructor
InitWindow ==
  /\ appsELUs = [a \in WindowApps |-> [w \in WindowWorkers |-> <<>>]]
  /\ lastRead = NoRead

----------------------------------------------------------------------------
(* alert engine: processHealthInfo of the v1 alerts plugin                  *)
(* (plugins/alerts.js)                                                      *)

VARIABLES
  newMetrics,            \* app.watt.runtimeSupportsNewHealthMetrics()
  healthCache,           \* the timestamps of the entries of healthCache
  lastServicesAlertTime, \* service -> Date.now() of its latest alert
  workerStartTimes,      \* worker -> Date.now() of its latest 'application:worker:started'
  alertTasks,            \* bag of processHealthInfo invocations suspended at an await
  sampled,               \* how many events of the runtime so far
  lastSample             \* what processHealthInfo did with the event of the step just taken

alertVars ==
  <<newMetrics, healthCache, lastServicesAlertTime, workerStartTimes, alertTasks,
    sampled, lastSample>>

\* scaler.alertRetentionWindow, scaler.podHealthWindow and
\* PLT_ALERTS_GRACE_PERIOD_SEC * 1000, in clock units
alertRetentionWindow == 2
podHealthWindow == 1
gracePeriodMs == 1

\* PLT_FLAMEGRAPHS_PAUSE_ELU_TRESHOLD
pauseEluThreshold == 95

\* the ELU above which the metrics listener calls a sample unhealthy
unhealthyELUThreshold == 85

\* healthConfig.maxHeapUsed, in hundredths
maxHeapUsed == 99

\* Date.now() when setupAlerts ran
pluginStartTime == 1

AlertServices == {"s1", "s2"}
AlertWorkers == {"s1:0", "s2:0"}

\* healthInfo.application of the events of a worker
ApplicationOf(workerId) == IF workerId = "s2:0" THEN "s2" ELSE "s1"

MaxAlertSamples == 3
MaxAlertTime == 4

\* currentHealth of the events, memory usage in hundredths of heapTotal
CurrentHealths ==
  {[elu |-> 50, memoryUsage |-> 50],
   [elu |-> 85, memoryUsage |-> 99],
   [elu |-> 86, memoryUsage |-> 50],
   [elu |-> 95, memoryUsage |-> 100]}

\* elu > unhealthyELUThreshold || memoryUsage > maxHeapUsed
SynthesizedUnhealthy(currentHealth) ==
  currentHealth.elu > unhealthyELUThreshold \/ currentHealth.memoryUsage > maxHeapUsed

\* healthCache after the push and the splice(0, validIndex)
TrimmedCache(cache, timestamp) ==
  LET pushed == Append(cache, timestamp)
      valid == {i \in DOMAIN pushed : pushed[i] >= timestamp - podHealthWindow}
      validIndex == CHOOSE i \in valid : \A j \in valid : i <= j
  IN SubSeq(pushed, validIndex, Len(pushed))

\* timestamp - (workerStartTimes.get(workerId) ?? pluginStartTime) < gracePeriodMs
WithinGrace(workerId, timestamp) ==
  LET workerStartTime == IF workerStartTimes[workerId] # None
                         THEN workerStartTimes[workerId] ELSE pluginStartTime
  IN timestamp - workerStartTime < gracePeriodMs

WithinRetention_AnyService(serviceId, currentTime) ==
  \E s \in AlertServices :
    /\ lastServicesAlertTime[s] # None
    /\ lastServicesAlertTime[s] # 0
    /\ currentTime - lastServicesAlertTime[s] < alertRetentionWindow

\* lastAlertTime && currentTime - lastAlertTime < alertRetentionWindow
WithinRetention(serviceId, currentTime) ==
  /\ lastServicesAlertTime[serviceId] # None
  /\ lastServicesAlertTime[serviceId] # 0
  /\ currentTime - lastServicesAlertTime[serviceId] < alertRetentionWindow

NoSample ==
  [kind |-> "none", serviceId |-> "", workerId |-> "", unhealthy |-> FALSE, paused |-> FALSE]

\* processHealthInfo(healthInfo) up to its first await, or to its return
processHealthInfo(workerId, currentHealth, unhealthy) ==
  LET serviceId == ApplicationOf(workerId)
      \* app.pauseProfiling is called when elu >= pauseEluThreshold
      seen == [kind |-> "skipped", serviceId |-> serviceId, workerId |-> workerId,
               unhealthy |-> unhealthy,
               paused |-> currentHealth.elu >= pauseEluThreshold]
  IN /\ healthCache' = TrimmedCache(healthCache, now)
     /\ IF WithinGrace(workerId, now)
        THEN /\ lastSample' = [seen EXCEPT !.kind = "grace"]
             /\ UNCHANGED <<lastServicesAlertTime, alertTasks>>
        ELSE IF ~unhealthy
        THEN /\ lastSample' = [seen EXCEPT !.kind = "healthy"]
             /\ UNCHANGED <<lastServicesAlertTime, alertTasks>>
        ELSE IF WithinRetention(serviceId, now)
        THEN /\ lastSample' = seen
             /\ UNCHANGED <<lastServicesAlertTime, alertTasks>>
        ELSE /\ lastSample' = [seen EXCEPT !.kind = "alert"]
             /\ lastServicesAlertTime' = [lastServicesAlertTime EXCEPT ![serviceId] = now]
             /\ alertTasks' = alertTasks (+) SetToBag(
                  {[serviceId |-> serviceId, at |-> now, phase |-> "auth"]})

\* the runtime emits a health event of a worker: 'application:worker:health'
\* carries unhealthy, 'application:worker:health:metrics' has it computed
WorkerHealthEvent ==
  /\ sampled < MaxAlertSamples
  /\ sampled' = sampled + 1
  /\ \E workerId \in AlertWorkers, currentHealth \in CurrentHealths, flag \in BOOLEAN :
       /\ newMetrics => flag = SynthesizedUnhealthy(currentHealth)
       /\ processHealthInfo(workerId, currentHealth, flag)
  /\ UNCHANGED <<now, newMetrics, workerStartTimes>>

\* the listener of 'application:worker:started'
WorkerStarted ==
  /\ sampled < MaxAlertSamples
  /\ sampled' = sampled + 1
  /\ \E workerId \in AlertWorkers :
       workerStartTimes' = [workerStartTimes EXCEPT ![workerId] = now]
  /\ lastSample' = NoSample
  /\ UNCHANGED <<now, newMetrics, healthCache, lastServicesAlertTime, alertTasks>>

\* getAuthorizationHeader() resolves: POST /alerts is sent
AlertAuthResolved(t) ==
  /\ BagIn(t, alertTasks) /\ t.phase = "auth"
  /\ alertTasks' = (alertTasks (-) SetToBag({t})) (+) SetToBag({[t EXCEPT !.phase = "post"]})
  /\ lastSample' = [NoSample EXCEPT !.kind = "post", !.serviceId = t.serviceId]
  /\ UNCHANGED <<now, newMetrics, healthCache, lastServicesAlertTime, workerStartTimes, sampled>>

\* getAuthorizationHeader() rejects: processHealthInfo rejects, nothing is
\* posted
AlertAuthRejected(t) ==
  /\ BagIn(t, alertTasks) /\ t.phase = "auth"
  /\ alertTasks' = alertTasks (-) SetToBag({t})
  /\ lastSample' = [NoSample EXCEPT !.kind = "rejected", !.serviceId = t.serviceId]
  /\ UNCHANGED <<now, newMetrics, healthCache, lastServicesAlertTime, workerStartTimes, sampled>>

\* POST /alerts is answered, or fails: with a 200 requestFlamegraphs is
\* called for the service, otherwise the error is logged or thrown
AlertPostDone(t) ==
  /\ BagIn(t, alertTasks) /\ t.phase = "post"
  /\ alertTasks' = alertTasks (-) SetToBag({t})
  /\ \E res \in {"flamegraph", "failed"} :
       lastSample' = [NoSample EXCEPT !.kind = res, !.serviceId = t.serviceId]
  /\ UNCHANGED <<now, newMetrics, healthCache, lastServicesAlertTime, workerStartTimes, sampled>>

\* time passes
AlertTick ==
  /\ now < MaxAlertTime
  /\ now' = now + 1
  /\ lastSample' = NoSample
  /\ UNCHANGED <<newMetrics, healthCache, lastServicesAlertTime, workerStartTimes,
                 alertTasks, sampled>>

AlertsIdle ==
  /\ newMetrics = FALSE
  /\ healthCache = <<>>
  /\ lastServicesAlertTime = [s \in AlertServices |-> None]
  /\ workerStartTimes = [w \in AlertWorkers |-> None]
  /\ alertTasks = EmptyBag
  /\ sampled = 0
  /\ lastSample = NoSample

\* the plugin after setupAlerts(), with either kind of runtime
InitAlerts ==
  /\ newMetrics \in BOOLEAN
  /\ healthCache = <<>>
  /\ lastServicesAlertTime = [s \in AlertServices |-> None]
  /\ workerStartTimes = [w \in AlertWorkers |-> None]
  /\ alertTasks = EmptyBag
  /\ sampled = 0
  /\ lastSample = NoSample

----------------------------------------------------------------------------
(* sendFlamegraphs: the retry loop of getServiceFlamegraph (flamegraphs    *)
(* plugin)                                                                  *)

VARIABLES
  flamegraphsIntervalSec,     \* PLT_FLAMEGRAPHS_INTERVAL_SEC
  flamegraphsAttemptTimeout,  \* PLT_FLAMEGRAPHS_ATTEMPT_TIMEOUT
  fetchPc,                    \* "idle" | "awaiting" | "sleeping" | "returned"
  fetchWorkerId,              \* the workerId argument of the running invocation
  attempt,                    \* its attempt argument
  fetchResult,                \* what the outermost call returned: "none" | "profile" | "undefined"
  retries,                    \* how often NO_PROFILE_AVAILABLE led to another attempt, since the outermost call
  fallbacks                   \* how often the loop turned from a worker to its service

fetchVars ==
  <<flamegraphsIntervalSec, flamegraphsAttemptTimeout, fetchPc, fetchWorkerId,
    attempt, fetchResult, retries, fallbacks>>

\* the configurations followed, in clock units of 1000 ms
IntervalSecValues == {2, 4}
AttemptTimeoutValues == {1, 3, 8}

\* the ids sendFlamegraphs passes: an application id or a worker id
FetchWorkerIds == {"s1", "s1:0"}

NoProfileAvailable == "PLT_PPROF_NO_PROFILE_AVAILABLE"
NotEnoughELU == "PLT_PPROF_NOT_ENOUGH_ELU"
ErrorCodes == {NoProfileAvailable, NotEnoughELU, "other"}

durationMillis == flamegraphsIntervalSec

\* Math.ceil(a / b) for positive integers
CeilDiv(a, b) == (a + b - 1) \div b

attemptTimeout == Min(flamegraphsAttemptTimeout, durationMillis)

maxAttempts == CeilDiv(durationMillis, attemptTimeout) + 1

\* workerId.split(':'): the service id, and whether a worker index follows
ServiceIdOf(workerId) == IF workerId = "s1:0" THEN "s1" ELSE workerId
HasWorkerIndex(workerId) == workerId = "s1:0"

\* the outermost call, sendFlamegraphs awaiting its result
GetServiceFlamegraphCall ==
  /\ fetchPc = "idle"
  /\ \E workerId \in FetchWorkerIds : fetchWorkerId' = workerId
  /\ fetchPc' = "awaiting"
  /\ attempt' = 1
  /\ UNCHANGED <<flamegraphsIntervalSec, flamegraphsAttemptTimeout, fetchResult,
                 retries, fallbacks>>

\* getProfilingState and getLastProfile both resolve
CommandsResolved ==
  /\ fetchPc = "awaiting"
  /\ fetchPc' = "returned"
  /\ fetchResult' = "profile"
  /\ UNCHANGED <<flamegraphsIntervalSec, flamegraphsAttemptTimeout, fetchWorkerId,
                 attempt, retries, fallbacks>>

CommandsRejected_AlwaysRetry(code) ==
  /\ fetchPc = "awaiting"
  /\ IF code = NoProfileAvailable
     THEN /\ fetchPc' = "sleeping"
          /\ UNCHANGED <<fetchWorkerId, attempt, fetchResult, fallbacks>>
     ELSE IF code = "other" /\ HasWorkerIndex(fetchWorkerId)
     THEN /\ fetchWorkerId' = ServiceIdOf(fetchWorkerId)
          /\ attempt' = 1
          /\ fallbacks' = fallbacks + 1
          /\ UNCHANGED <<fetchPc, fetchResult>>
     ELSE /\ fetchPc' = "returned"
          /\ fetchResult' = "undefined"
          /\ UNCHANGED <<fetchWorkerId, attempt, fallbacks>>
  /\ UNCHANGED <<flamegraphsIntervalSec, flamegraphsAttemptTimeout, retries>>

\* one of the two commands rejects with err.code = code: the catch block
CommandsRejected(code) ==
  /\ fetchPc = "awaiting"
  /\ IF code = NoProfileAvailable /\ attempt <= maxAttempts
     THEN /\ fetchPc' = "sleeping"
          /\ UNCHANGED <<fetchWorkerId, attempt, fetchResult, fallbacks>>
     ELSE IF code = "other" /\ HasWorkerIndex(fetchWorkerId)
     THEN /\ fetchWorkerId' = ServiceIdOf(fetchWorkerId)
          /\ attempt' = 1
          /\ fallbacks' = fallbacks + 1
          /\ UNCHANGED <<fetchPc, fetchResult>>
     ELSE /\ fetchPc' = "returned"
          /\ fetchResult' = "undefined"
          /\ UNCHANGED <<fetchWorkerId, attempt, fallbacks>>
  /\ UNCHANGED <<flamegraphsIntervalSec, flamegraphsAttemptTimeout, retries>>

\* sleep(attemptTimeout) resolves: getServiceFlamegraph(workerId,
\* profileType, attempt + 1)
AttemptSleepDone ==
  /\ fetchPc = "sleeping"
  /\ fetchPc' = "awaiting"
  /\ attempt' = attempt + 1
  /\ retries' = retries + 1
  /\ UNCHANGED <<flamegraphsIntervalSec, flamegraphsAttemptTimeout, fetchWorkerId,
                 fetchResult, fallbacks>>

FetchIdle ==
  /\ flamegraphsIntervalSec = 2
  /\ flamegraphsAttemptTimeout = 1
  /\ fetchPc = "idle"
  /\ fetchWorkerId = "s1"
  /\ attempt = 1
  /\ fetchResult = "none"
  /\ retries = 0
  /\ fallbacks = 0

\* the plugin set up with any of the configurations, nothing fetched yet
InitFetch ==
  /\ flamegraphsIntervalSec \in IntervalSecValues
  /\ flamegraphsAttemptTimeout \in AttemptTimeoutValues
  /\ fetchPc = "idle"
  /\ fetchWorkerId = "s1"
  /\ attempt = 1
  /\ fetchResult = "none"
  /\ retries = 0
  /\ fallbacks = 0

----------------------------------------------------------------------------
(* Specifications                                                           *)

\* the variables of the components added after the profiling controller
\* the alert engine and what follows it
thirdVars == <<alertVars, fetchVars>>

ThirdIdle == AlertsIdle /\ FetchIdle

laterVars == <<updateVars, signalVars, windowVars, thirdVars>>

LaterIdle == UpdatesIdle /\ InitSignals /\ InitWindow /\ ThirdIdle

vars == <<algVars, now, scalerVars, profilerVars, flameVars, laterVars>>

AlgIdle ==
  /\ workersInfo = <<>>
  /\ appELU = [a \in Apps |-> 50]
  /\ maxWorkers = 10
  /\ recommendations = <<>>
  /\ algPc = "ready"

\* the scaling algorithm applied to every input within the bounds
InitSpecAlg == InitAlg /\ now = 0 /\ InitScaler /\ ProfilerIdle /\ FlameIdle /\ LaterIdle

NextAlg ==
  GetRecommendationsCall /\ UNCHANGED <<now, scalerVars, profilerVars, flameVars, laterVars>>

SpecAlg == InitSpecAlg /\ [][NextAlg]_vars

\* the scaling controller; the clock starts a cooldown past lastScaling = 0,
\* as Date.now() does
InitSpecScaler ==
  AlgIdle /\ now = CooldownMs /\ InitScaler /\ ProfilerIdle /\ FlameIdle /\ LaterIdle

OnlyScaler == UNCHANGED <<algVars, profilerVars, flameVars, laterVars>>

NextScaler ==
  \/ HealthEvent /\ OnlyScaler
  \/ ScalingTimer /\ OnlyScaler
  \/ \E t \in TaskIds : ListingDoneNoApply(t) /\ OnlyScaler
  \/ \E t \in TaskIds : ListingDoneApply(t) /\ OnlyScaler
  \/ \E t \in TaskIds : ApplyDone(t) /\ OnlyScaler
  \/ Tick /\ UNCHANGED scalerVars /\ OnlyScaler

SpecScaler == InitSpecScaler /\ [][NextScaler]_vars

\* one Profiler driven through its public methods, its onProfile a callback
InitSpecProfiler ==
  AlgIdle /\ now = 0 /\ InitScaler /\ InitProfiler /\ FlameIdle /\ LaterIdle

OnlyProfiler == UNCHANGED <<algVars, scalerVars, flameVars, laterVars>>

NextProfiler ==
  \/ RequestProfileCall /\ OnlyProfiler
  \/ StopCall /\ OnlyProfiler
  \/ \E t \in inflight : StartProfilingResolved(t) /\ OnlyProfiler
  \/ \E t \in inflight : StartProfilingRejected(t) /\ OnlyProfiler
  \/ \E p \in ProfIds : GetProfileInterval(p) /\ OnlyProfiler
  \/ \E p \in ProfIds : LostInterval(p) /\ OnlyProfiler
  \/ \E t \in inflight : GetProfileResolved(t) /\ OnlyProfiler
  \/ \E t \in inflight : GetProfileRejected(t) /\ OnlyProfiler
  \/ \E p \in ProfIds : StopProfileTimeout(p) /\ OnlyProfiler
  \/ \E p \in ProfIds : LostTimeout(p) /\ OnlyProfiler
  \/ \E t \in inflight : StopProfilingDone(t) /\ OnlyProfiler
  \/ ProfTick /\ NoDelivery /\ UNCHANGED <<prof, inflight, cnt>> /\ OnlyProfiler

SpecProfiler == InitSpecProfiler /\ [][NextProfiler]_vars


\* the flamegraphs plugin: requestFlamegraphs and pauseProfiling over the
\* registry, every Profiler delivering to the handler of createProfileHandler
InitSpecFlame ==
  AlgIdle /\ now = 0 /\ InitScaler /\ ProfilerIdle /\ InitFlame /\ LaterIdle

OnlyProfilers == UNCHANGED <<algVars, scalerVars, flameVars, laterVars>>

NextFlame ==
  \/ RequestFlamegraphsCall /\ UNCHANGED <<algVars, scalerVars, laterVars>>
  \/ \E c \in BagToSet(calls) : RequestFlamegraphsResume(c) /\ UNCHANGED <<algVars, scalerVars, laterVars>>
  \/ PauseProfilingCall /\ UNCHANGED <<algVars, scalerVars, laterVars>>
  \/ \E t \in inflight : PauseProfilingResumed(t) /\ UNCHANGED <<algVars, scalerVars, laterVars>>
  \/ \E t \in inflight : StopProfilingDoneUnawaited(t) /\ UNCHANGED <<algVars, scalerVars, laterVars>>
  \/ \E w \in WorkerIds : WorkerExit(w) /\ UNCHANGED <<algVars, scalerVars, laterVars>>
  \/ \E t \in inflight : StartProfilingResolved(t) /\ OnlyProfilers
  \/ \E t \in inflight : StartProfilingRejected(t) /\ OnlyProfilers
  \/ \E p \in ProfIds : GetProfileInterval(p) /\ OnlyProfilers
  \/ \E p \in ProfIds : LostInterval(p) /\ OnlyProfilers
  \/ \E t \in inflight : GetProfileResolved(t) /\ OnlyProfilers
  \/ \E t \in inflight : GetProfileRejected(t) /\ OnlyProfilers
  \/ \E p \in ProfIds : StopProfileTimeout(p) /\ OnlyProfilers
  \/ \E p \in ProfIds : LostTimeout(p) /\ OnlyProfilers
  \/ FlameTick /\ NoDelivery /\ UNCHANGED <<prof, inflight, cnt>> /\ OnlyProfilers

SpecFlame == InitSpecFlame /\ [][NextFlame]_vars

\* the handler of createProfileHandler called with every outcome and every
\* list of requests within the bounds, ICC free to fail any request
InitSpecSink ==
  AlgIdle /\ now = 0 /\ InitScaler /\ InitSink /\ SinkIdle /\ LaterIdle

NextSink ==
  OnProfileCall /\ UNCHANGED <<algVars, scalerVars, flameVars, laterVars>>

SpecSink == InitSpecSink /\ [][NextSink]_vars

\* the control channel: ICC free to open, fail or close any WebSocket and
\* to send any frame, closeUpdates() called at any moment
InitSpecUpdates ==
  AlgIdle /\ now = 0 /\ InitScaler /\ ProfilerIdle /\ FlameIdle /\ InitUpdates /\ InitSignals
    /\ InitWindow /\ ThirdIdle

OnlyUpdates ==
  UNCHANGED <<algVars, now, scalerVars, profilerVars, flameVars, signalVars, windowVars, thirdVars>>

NextUpdates ==
  \/ \E s \in BagToSet(sleeps) : SleepDone(s) /\ OnlyUpdates
  \/ \E t \in BagToSet(connects) : AuthResolved(t) /\ OnlyUpdates
  \/ \E t \in BagToSet(connects) : AuthRejected(t) /\ OnlyUpdates
  \/ \E c \in ConnIds : SocketOpen(c) /\ OnlyUpdates
  \/ \E c \in ConnIds, frame \in Frames : SocketMessage(c, frame) /\ OnlyUpdates
  \/ \E c \in ConnIds : SocketError(c) /\ OnlyUpdates
  \/ \E c \in ConnIds : SocketClose(c) /\ OnlyUpdates
  \/ CloseUpdates /\ OnlyUpdates

SpecUpdates == InitSpecUpdates /\ [][NextUpdates]_vars

\* the health signals batcher: health metrics events, the flush timer and
\* the answers of ICC in any order
InitSpecBatcher ==
  AlgIdle /\ now = 0 /\ InitScaler /\ ProfilerIdle /\ FlameIdle /\ UpdatesIdle /\ InitSignals
    /\ InitWindow /\ ThirdIdle

OnlySignals ==
  UNCHANGED <<algVars, scalerVars, profilerVars, flameVars, updateVars, windowVars, thirdVars>>

NextBatcher ==
  \/ HealthMetrics /\ OnlySignals
  \/ FlushTimer /\ OnlySignals
  \/ \E p \in posts : PostAnswered(p) /\ OnlySignals
  \/ \E p \in posts : PostFailed(p) /\ OnlySignals
  \/ SignalsTick /\ OnlySignals

SpecBatcher == InitSpecBatcher /\ [][NextBatcher]_vars

\* HealthSignalsCache driven through its methods, past its capacity
CacheKeys == {<<"main", "elu", "main:0">>, <<"main", "heap", "main:0">>}

InitSpecCache ==
  AlgIdle /\ now = 0 /\ InitScaler /\ ProfilerIdle /\ FlameIdle /\ UpdatesIdle /\ InitSignals
    /\ InitWindow /\ ThirdIdle

NextCache ==
  \/ \E key \in CacheKeys : AddServiceSignalCall(key) /\ OnlySignals
  \/ GetAllSignalsCall /\ OnlySignals

SpecCache == InitSpecCache /\ [][NextCache]_vars

\* the ELU window of the scaling algorithm: health events and reads at any
\* time
InitSpecWindow ==
  AlgIdle /\ now = 0 /\ InitScaler /\ ProfilerIdle /\ FlameIdle /\ UpdatesIdle /\ InitSignals
    /\ InitWindow /\ ThirdIdle

OnlyWindow ==
  UNCHANGED <<algVars, scalerVars, profilerVars, flameVars, updateVars, signalVars, thirdVars>>

NextWindow ==
  \/ ProcessWorkerHealthInfo /\ OnlyWindow
  \/ CalculateAppELU /\ OnlyWindow
  \/ WindowTick /\ OnlyWindow

SpecWindow == InitSpecWindow /\ [][NextWindow]_vars

\* everything before the alert engine
EarlierIdle ==
  AlgIdle /\ InitScaler /\ ProfilerIdle /\ FlameIdle /\ UpdatesIdle /\ InitSignals /\ InitWindow

OnlyThird ==
  UNCHANGED <<algVars, scalerVars, profilerVars, flameVars, updateVars, signalVars, windowVars>>

\* the alert engine: health events of any worker at any time, workers
\* restarting, ICC and getAuthorizationHeader free to fail; Date.now() is
\* positive
InitSpecAlerts == EarlierIdle /\ now = pluginStartTime /\ InitAlerts /\ FetchIdle

NextAlerts ==
  \/ WorkerHealthEvent /\ UNCHANGED fetchVars /\ OnlyThird
  \/ WorkerStarted /\ UNCHANGED fetchVars /\ OnlyThird
  \/ \E t \in BagToSet(alertTasks) : AlertAuthResolved(t) /\ UNCHANGED fetchVars /\ OnlyThird
  \/ \E t \in BagToSet(alertTasks) : AlertAuthRejected(t) /\ UNCHANGED fetchVars /\ OnlyThird
  \/ \E t \in BagToSet(alertTasks) : AlertPostDone(t) /\ UNCHANGED fetchVars /\ OnlyThird
  \/ AlertTick /\ UNCHANGED fetchVars /\ OnlyThird

SpecAlerts == InitSpecAlerts /\ [][NextAlerts]_vars

\* one fetch of a profile: the runtime free to answer every attempt with a
\* profile or with any error; every command is answered and every sleep
\* ends
InitSpecFetch == EarlierIdle /\ now = 0 /\ AlertsIdle /\ InitFetch

OnlyFetch == UNCHANGED <<now, alertVars>> /\ OnlyThird

NextFetch ==
  \/ GetServiceFlamegraphCall /\ OnlyFetch
  \/ CommandsResolved /\ OnlyFetch
  \/ \E code \in ErrorCodes : CommandsRejected(code) /\ OnlyFetch
  \/ AttemptSleepDone /\ OnlyFetch

SpecFetch == InitSpecFetch /\ [][NextFetch]_vars /\ WF_vars(NextFetch)

----------------------------------------------------------------------------
(* Claims                                                                   *)

\* C1: every recommendation returned by getRecommendations, from the
\* scale-down pass or from reallocation, has a worker count of at least 1.
C1_RecommendationsAtLeastOne ==
  \A i \in DOMAIN recommendations : recommendations[i].workersCount >= 1

\* C2: runtime.updateApplicationsResources is never invoked while
\* now < lastApply + cooldown, lastApply being the time the previous apply
\* finished.
C2_NoApplyInCooldown ==
  \A i \in DOMAIN applyLog :
    i > 1 => /\ applyLog[i - 1].done # None
             /\ applyLog[i].at >= applyLog[i - 1].done + CooldownMs

\* a second apply has been invoked, and a trigger that arrived inside the
\* cooldown of an apply was turned away
C2_Witness ==
  /\ Len(applyLog) >= 2
  /\ lastAttempt = "skipped"
  /\ ~isScaling
  /\ applyLog[Len(applyLog)].done # None
  /\ now < applyLog[Len(applyLog)].done + CooldownMs

\* C3: at most one scaling decision (list workers, compute, apply) is in
\* flight at any time.
C3_OneDecisionInFlight ==
  Cardinality({t \in TaskIds : tasks[t] # "idle"}) <= 1

\* a trigger arrived while a decision was in flight, outside any cooldown,
\* and started nothing
C3_Witness ==
  /\ lastAttempt = "skipped"
  /\ isScaling
  /\ ~IsInCooldown
  /\ Cardinality({t \in TaskIds : tasks[t] # "idle"}) = 1

\* the service a Profiler belongs to, as createProfileHandler derives it
\* from the workerId
ServiceOf(p) == IF prof[p].workerId \in WorkerIds THEN "s1" ELSE ""

Registered(p) ==
  \E s \in Services : \E i \in DOMAIN profilers[s] : profilers[s][i].p = p

C5_NotRunningWhileStopping ==
  \A p \in ProfIds :
    (\E t \in inflight : t.kind = "stop" /\ t.p = p) => ~prof[p].isProfiling

IsProduction(d) == d.kind = "profile" /\ ~d.err

\* the timestamps of s never decrease
NonDecreasing(s) ==
  \A i, j \in DOMAIN s : i < j => s[i].timestamp <= s[j].timestamp

\* C6 as stated: at each production the requests passed to onProfile are
\* exactly the queued ones with timestamp <= the profile's timestamp, and
\* every queued request with a later timestamp stays in the queue.
C6_MatchedExactlyByTimestamp ==
  IsProduction(lastDelivery) =>
    /\ \A i \in DOMAIN lastDelivery.requests :
         lastDelivery.requests[i].timestamp <= lastDelivery.timestamp
    /\ \A i \in DOMAIN lastDelivery.rest :
         lastDelivery.rest[i].timestamp > lastDelivery.timestamp

\* C6 amended: at each production the requests passed to onProfile are the
\* queue up to and including the last request with timestamp <= the
\* profile's timestamp; every request left in the queue has a later
\* timestamp; and when timestamps do not decrease along the queue, the
\* requests passed are exactly those with timestamp <= the profile's.
C6_MatchedPrefixByTimestamp ==
  IsProduction(lastDelivery) =>
    LET m == lastDelivery.requests
        r == lastDelivery.rest
        ts == lastDelivery.timestamp
    IN /\ \A i \in DOMAIN r : r[i].timestamp > ts
       /\ m # <<>> => m[Len(m)].timestamp <= ts
       /\ NonDecreasing(m \o r) => \A i \in DOMAIN m : m[i].timestamp <= ts

\* a production split a queue of non-decreasing timestamps: one request
\* delivered, one left for later
C6_Witness ==
  /\ IsProduction(lastDelivery)
  /\ lastDelivery.requests # <<>>
  /\ lastDelivery.rest # <<>>
  /\ NonDecreasing(lastDelivery.requests \o lastDelivery.rest)

\* C7: onProfile is invoked for the productions of a Profiler in the order
\* of the interval callbacks that began them, and the requests passed with
\* a profile are in the order they were enqueued.
C7_ProductionsInOrder ==
  lastDelivery.kind = "profile" =>
    /\ lastDelivery.boundary > lastDelivery.prevBoundary
    /\ \A i, j \in DOMAIN lastDelivery.requests :
         i < j => lastDelivery.requests[i].n < lastDelivery.requests[j].n

\* C8: the requests pending at stop() are passed to onProfile with the
\* profile stopProfiling returned, and otherwise with an error.
C8_StopDeliversProfileOrError ==
  lastDelivery.kind = "stop" =>
    /\ lastDelivery.requests # <<>>
    /\ lastDelivery.err \/ lastDelivery.profile = "profile"

HandledProfile ==
  /\ lastDelivery.kind # "none"
  /\ prof[lastDelivery.p].onProfile = "handler"
  /\ ~lastDelivery.err
  /\ lastDelivery.profile = "profile"

\* the attach request of the delivery just handled was answered res
AttachAnswered(res) ==
  /\ HandledProfile
  /\ Len(lastCalls) >= 2
  /\ lastCalls[2].kind = "attach"
  /\ lastCalls[2].res = res

\* C11: when the attach request fails with an error other than
\* MULTIPLE_ALERTS_NOT_SUPPORTED, the handler sends nothing more: no upload
\* follows the attach request.
C11_NoReuploadOnOtherError ==
  AttachAnswered("error") => Len(lastCalls) = 2

\* C12: when the attach request fails with MULTIPLE_ALERTS_NOT_SUPPORTED,
\* the attach request is followed by exactly one upload per remaining
\* alertId, in order, each carrying that alertId, and by nothing else.
C12_ReuploadPerRemainingAlertId ==
  AttachAnswered("unsupported") =>
    LET others == lastCalls[2].alertIds
    IN /\ others = Tail(AlertIdsOf(lastDelivery.requests))
       /\ Len(lastCalls) = 2 + Len(others)
       /\ \A i \in DOMAIN others :
            /\ lastCalls[2 + i].kind = "upload"
            /\ lastCalls[2 + i].alertId = others[i]

\* the attach request listing two alertIds was answered 404 Route POST and
\* two uploads followed
C12_Witness ==
  /\ AttachAnswered("unsupported")
  /\ Len(lastCalls[2].alertIds) = 2
  /\ Len(lastCalls) = 4

\* C13: for a profile passed with requests, the first request sent is the
\* upload, bound to the first non-null alertId (to none when no request
\* has one); when that upload succeeds and more alertIds remain, the second
\* request is the one attach request, listing all remaining alertIds in the
\* order of their requests; when none remains there is no attach request.
C13_UploadFirstThenOneAttach ==
  (HandledProfile /\ lastDelivery.requests # <<>>) =>
    LET alertIds == AlertIdsOf(lastDelivery.requests)
        attaches == {i \in DOMAIN lastCalls : lastCalls[i].kind = "attach"}
    IN /\ Len(lastCalls) >= 1
       /\ lastCalls[1].kind = "upload"
       /\ lastCalls[1].alertId = (IF alertIds = <<>> THEN NoAlert ELSE Head(alertIds))
       /\ (lastCalls[1].res = "ok" /\ Len(alertIds) >= 2) =>
            /\ attaches = {2}
            /\ lastCalls[2].alertIds = Tail(alertIds)
            /\ lastCalls[2].res = "ok" => Len(lastCalls) = 2
       /\ Len(alertIds) <= 1 => Len(lastCalls) = 1

\* three requests, the second without alertId, passed with one profile: the
\* upload carried the first alertId and the attach request the third
C13_Witness ==
  /\ HandledProfile
  /\ Len(lastDelivery.requests) = 3
  /\ lastDelivery.requests[1].alertId # NoAlert
  /\ lastDelivery.requests[2].alertId = NoAlert
  /\ lastDelivery.requests[3].alertId # NoAlert
  /\ lastDelivery.requests[3].alertId # lastDelivery.requests[1].alertId
  /\ Len(lastCalls) = 2
  /\ lastCalls[2].kind = "attach"
  /\ lastCalls[2].res = "ok"

\* C14: once closeUpdates() has set isClosing, no WebSocket is constructed.
C14_NoConnectionAfterClosing ==
  [][isClosing =>
       \A c \in ConnIds : conns[c].state = "none" => conns'[c].state = "none"]_vars

\* the WebSockets whose construction followed from an error or close event
\* of WebSocket c
ResultingFrom(c) == {d \in ConnIds : conns[d].state # "none" /\ conns[d].cause = c}

\* C15: at most one reconnectToUpdates() is sleeping at any time, and the
\* error and close events of one WebSocket, however many, lead to at most
\* one new WebSocket.
C15_ReconnectIdempotent ==
  /\ BagCardinality(sleeps) <= 1
  /\ \A c \in ConnIds : Cardinality(ResultingFrom(c)) <= 1

\* an invocation of connectToUpdates awaits the first message of WebSocket c
AwaitsFirstMessage(c) ==
  \E t \in BagToSet(connects) : t.phase = "message" /\ t.sock = c

\* C16: the subscribe command is sent when the WebSocket has opened; frames
\* of a WebSocket are passed to processMessage only after its first frame
\* was an ack, and never that first frame itself; a first frame that is
\* not an ack leaves a reconnect pending unless the channel is closing.
C16_SubscribedOnlyAfterAck ==
  /\ [](\A c \in ConnIds :
          /\ conns[c].dispatch # "early"
          /\ conns[c].subscribes > 0 => conns[c].state \in {"open", "closed"})
  /\ [][\A c \in ConnIds :
          (/\ AwaitsFirstMessage(c)
           /\ conns[c].received = 0
           /\ conns'[c].received = 1
           /\ conns'[c].first # "ack")
            => (isReconnecting' \/ isClosing')]_vars

\* C17: the signals of a batch whose POST failed are still held for
\* sending: each is in its buffer or in a POST not answered yet.
C17_FailedBatchRetried ==
  lastPost.result = "failed" =>
    \A k \in SignalKeys : \A i \in DOMAIN lastPost.signals[k] :
      \/ \E j \in DOMAIN signalsByService[k] :
           signalsByService[k][j] = lastPost.signals[k][i]
      \/ \E p \in posts : \E j \in DOMAIN p.signals[k] :
           p.signals[k][j] = lastPost.signals[k][i]

\* the batch holds an ELU above eluThreshold or a heap value above
\* heapThresholdMb
HighInBatch(cache) ==
  \E k \in SignalKeys : \E i \in DOMAIN cache[k] :
    \/ k[2] = "elu" /\ cache[k][i][2] > eluThreshold
    \/ k[2] = "heap" /\ cache[k][i][2] > heapThresholdMb

\* the interval callback left the batcher as it was
TickDidNothing ==
  /\ lastTick' = "noop"
  /\ UNCHANGED <<signalsByService, batchStartedAt, batchHasHighValue, posts>>

\* the interval callback posted the batch and started a new empty one
TickFlushed ==
  /\ lastTick' = "flush"
  /\ posts' = posts \cup {[signals |-> signalsByService, batchStartedAt |-> batchStartedAt]}
  /\ signalsByService' = EmptyCache
  /\ batchStartedAt' = now

\* C18: the interval callback does nothing when no batch is open;
\* otherwise it flushes if and only if now - batchStartedAt has reached
\* the timeout, the short one when the batch holds an ELU above
\* eluThreshold or a heap value above heapThresholdMb and the long one
\* otherwise; a flush posts the batch and starts a new, empty one.
C18_FlushIffTimeoutReached ==
  [][lastTick' # "none" =>
       IF batchStartedAt = None THEN TickDidNothing
       ELSE IF now - batchStartedAt >=
                 (IF HighInBatch(signalsByService)
                  THEN batchShortTimeout ELSE batchLongTimeout)
       THEN TickFlushed
       ELSE TickDidNothing]_vars

\* a batch with a high value was flushed at the short timeout, before the
\* long one
C18_Witness ==
  /\ lastTick = "flush"
  /\ \E p \in posts :
       /\ HighInBatch(p.signals)
       /\ now - p.batchStartedAt >= batchShortTimeout
       /\ now - p.batchStartedAt < batchLongTimeout
       /\ batchStartedAt = now

\* C19: every buffer holds at most maxSize entries, and these are the
\* newest ones added to it since the last getAllSignals(), in order.
C19_BufferCapped ==
  \A k \in SignalKeys :
    LET values == signalsByService[k]
    IN /\ Len(values) <= maxSize
       /\ Len(values) = Min(added[k], maxSize)
       /\ \A i \in DOMAIN values : values[i][1] = added[k] - Len(values) + i

\* more than maxSize signals were added to one buffer
C19_Witness ==
  \E k \in SignalKeys :
    /\ added[k] > maxSize
    /\ Len(signalsByService[k]) = maxSize

\* C20: every entry #calculateAppELU averages is at most timeWindowSec old.
C20_ReadsOnlyWindowEntries ==
  \A w \in WindowWorkers : \A i \in DOMAIN lastRead.entries[w] :
    now - lastRead.entries[w][i].timestamp <= timeWindowSec

\* the step just taken is processHealthInfo handling an event
SampleHandled == lastSample' .kind \in {"grace", "healthy", "skipped", "alert"}

\* the step sent the event on to be posted as an alert, stamping the service
AlertTriggered ==
  LET s == lastSample' .serviceId
  IN /\ lastSample' .kind = "alert"
     /\ lastServicesAlertTime' = [lastServicesAlertTime EXCEPT ![s] = now]
     /\ alertTasks' = alertTasks (+) SetToBag({[serviceId |-> s, at |-> now, phase |-> "auth"]})

\* the step posted nothing and stamped nothing
NoAlertTriggered ==
  /\ lastSample' .kind # "alert"
  /\ UNCHANGED <<lastServicesAlertTime, alertTasks>>

\* no alert of the service yet, or the latest at least alertRetentionWindow ago
RetentionElapsed(s) ==
  \/ lastServicesAlertTime[s] = None
  \/ now - lastServicesAlertTime[s] >= alertRetentionWindow

\* the worker's last start, or the plugin's when it was not seen to start,
\* is less than gracePeriodMs ago
InGracePeriod(w) ==
  now - (IF workerStartTimes[w] = None THEN pluginStartTime ELSE workerStartTimes[w])
    < gracePeriodMs

\* C21 as stated: an unhealthy sample is posted as an alert if and only if
\* the service has had no alert yet or its latest alert is at least
\* alertRetentionWindow old.
C21_AlertIffRetentionElapsed ==
  [][(SampleHandled /\ lastSample' .unhealthy) =>
       IF RetentionElapsed(lastSample' .serviceId)
       THEN AlertTriggered ELSE NoAlertTriggered]_vars

\* C21 amended: a sample is posted as an alert if and only if it is
\* unhealthy, its worker is past its grace period and the service has had no
\* alert yet or its latest alert was triggered at least alertRetentionWindow
\* ago; the alerts of one service on their way to ICC were triggered at
\* least alertRetentionWindow apart.
C21_AlertIffRetentionElapsedPastGrace ==
  /\ [](\A t \in BagToSet(alertTasks) :
          /\ CopiesIn(t, alertTasks) = 1
          /\ \A u \in BagToSet(alertTasks) :
               (u.serviceId = t.serviceId /\ u.at > t.at)
                 => u.at - t.at >= alertRetentionWindow)
  /\ [][SampleHandled =>
         IF /\ lastSample' .unhealthy
            /\ ~InGracePeriod(lastSample' .workerId)
            /\ RetentionElapsed(lastSample' .serviceId)
         THEN AlertTriggered ELSE NoAlertTriggered]_vars

\* an unhealthy sample of a worker past its grace period was skipped because
\* the service had an alert earlier, less than alertRetentionWindow ago
C21_Witness ==
  /\ lastSample.kind = "skipped"
  /\ lastSample.unhealthy
  /\ lastServicesAlertTime[lastSample.serviceId] # None
  /\ now > lastServicesAlertTime[lastSample.serviceId]
  /\ now - lastServicesAlertTime[lastSample.serviceId] < alertRetentionWindow

\* the step resumes the requestFlamegraphs invocation c after getWorkers()
ResumesRequest(c) ==
  /\ c.kind = "request"
  /\ calls' = calls (-) SetToBag({c})

\* the Profiler registered for the pair of c targets a worker that
\* getWorkers() no longer lists, others are listed, and no pause is in force
TargetGone(c) ==
  /\ Lookup(profilers[c.serviceId], c.profileType) # 0
  /\ prof[Lookup(profilers[c.serviceId], c.profileType)].workerId \notin workers
  /\ workers # {}
  /\ ~isProfilingPaused(c.serviceId)

\* stop() was called on Profiler p if it was profiling: stopProfiling is on
\* its way and its timers are cleared
StoppedBestEffort(p) ==
  /\ ~prof'[p].isProfiling
  /\ prof[p].isProfiling =>
       /\ \E t \in inflight' \ inflight : t.p = p /\ t.kind = "stop"
       /\ prof'[p].getProfileInterval = None
       /\ prof'[p].stopProfileTimeout = None

\* the pair of c is registered to a Profiler constructed in this step for
\* the first worker listed, and the request went to it
ReplacedAtIndex0(c, old) ==
  LET new == Lookup(profilers'[c.serviceId], c.profileType)
  IN /\ new # 0 /\ new # old
     /\ ~prof[new].created /\ prof'[new].created
     /\ prof'[new].workerId = FirstWorker(workers)
     /\ prof'[new].type = c.profileType
     /\ Len(prof'[new].requests) = 1
     /\ prof'[new].requests[1].alertId = c.alertId
     /\ \E t \in inflight' \ inflight : t.p = new /\ t.kind = "start"

\* C22: when requestFlamegraphs finds that the worker of the registered
\* Profiler is no longer listed, it stops that Profiler if it is profiling
\* and registers a new one for the worker now first in the list of the
\* service, which takes the request.
C22_FailoverToIndex0 ==
  [][\A c \in BagToSet(calls) :
       (ResumesRequest(c) /\ TargetGone(c)) =>
         LET old == Lookup(profilers[c.serviceId], c.profileType)
         IN StoppedBestEffort(old) /\ ReplacedAtIndex0(c, old)]_vars

\* worker s1:0 exited while its Profiler was profiling; the Profiler was
\* stopped and the pair is registered to a Profiler of s1:1
C22_Witness ==
  /\ workers = {"s1:1"}
  /\ prof[1].workerId = "s1:0" /\ ~prof[1].isProfiling
  /\ \E t \in inflight : t.p = 1 /\ t.kind = "stop"
  /\ Lookup(profilers["s1"], "cpu") = 2
  /\ prof[2].workerId = "s1:1" /\ prof[2].isProfiling

\* an idle-stop timer of Profiler p has not fired yet
IdleStopPending(p) ==
  prof[p].stopProfileTimeout # None \/ prof[p].lostTimeouts # <<>>

\* the step is a production of Profiler p, successful or not, that leaves
\* no request queued
ProducedLeavingNone(p) ==
  /\ lastDelivery' .kind = "profile"
  /\ lastDelivery' .p = p
  /\ prof'[p].requests = <<>>

\* C23: a production that leaves no request schedules stop() for
\* Duration / 2 later, and a request cancels the idle stop: while a request
\* is queued no idle-stop timer is left to fire.
C23_IdleStopCancelledByRequest ==
  /\ [](\A p \in ProfIds : prof[p].requests # <<>> => ~IdleStopPending(p))
  /\ [][\A p \in ProfIds :
          ProducedLeavingNone(p) => prof'[p].stopProfileTimeout = now + Duration \div 2]_vars

\* the step is a call of requestProfile on Profiler p
RequestProfileOn(p) ==
  /\ cnt'.req = cnt.req + 1
  /\ Len(prof'[p].requests) = Len(prof[p].requests) + 1

\* the commands the step sends to the worker
CommandsSent == inflight' \ inflight

\* the step enqueues one request and leaves the queued ones as they were
Enqueued(p) ==
  SubSeq(prof'[p].requests, 1, Len(prof[p].requests)) = prof[p].requests

\* the step starts profiling on the worker of p, with the first production
\* due one duration from now
StartedProfiling(p) ==
  /\ \E t \in CommandsSent : t.kind = "start" /\ t.p = p
  /\ Cardinality(CommandsSent) = 1
  /\ prof'[p].isProfiling
  /\ prof'[p].nextProfileTimestamp = now + Duration

\* the step sends nothing and leaves the production schedule alone
OnlyEnqueued(p) ==
  /\ CommandsSent = {}
  /\ prof'[p].isProfiling
  /\ prof'[p].nextProfileTimestamp = prof[p].nextProfileTimestamp
  /\ prof'[p].getProfileInterval = prof[p].getProfileInterval

\* C24: requestProfile on an idle Profiler starts profiling on the worker,
\* sets the first production for now + Duration and enqueues the request;
\* on a running Profiler it enqueues the request, sends no startProfiling
\* and leaves no idle-stop timer pending.
C24_RequestProfileIdleOrRunning ==
  [][\A p \in ProfIds :
       RequestProfileOn(p) =>
         /\ Enqueued(p)
         /\ IF ~prof[p].isProfiling
            THEN StartedProfiling(p)
            ELSE OnlyEnqueued(p) /\ ~IdleStopPending(p)']_vars

\* the stopProfiling commands the step sends
StopsSent == {t \in CommandsSent : t.kind = "stop"}

\* a stopProfiling in flight that no pauseProfiling awaits
UnawaitedStop(t) ==
  /\ t \in inflight /\ t.kind = "stop"
  /\ ~ \E c \in BagToSet(calls) : c.kind = "pause" /\ c.awaiting = t.n

\* C25: stopProfiling is sent only by a stop() that finds the Profiler
\* profiling, once, and leaves it not profiling, so that further calls of
\* stop() send none: the stopProfiling commands never outnumber the
\* startProfiling commands.
C25_OneStopProfilingPerStop ==
  /\ [](cnt.stop <= cnt.start)
  /\ [][\A t \in StopsSent :
          /\ prof[t.p].isProfiling
          /\ ~prof'[t.p].isProfiling
          /\ \A u \in StopsSent : u.p = t.p => u = t]_vars

\* the idle-stop timer has sent the one stopProfiling, and pauseProfiling,
\* called while it is in flight, has called stop() on the same Profiler
C25_Witness ==
  \E s \in Services, t \in inflight :
    /\ UnawaitedStop(t)
    /\ cnt.stop = 1
    /\ cnt.pause = 1
    /\ isProfilingPaused(s)
    /\ Lookup(profilers[s], "cpu") = t.p

\* the workers of application a as listed in workersInfo
WorkersListed(a) == Cardinality({i \in DOMAIN workersInfo : workersInfo[i] = a})

\* the worker count of application a once every recommendation of recs has
\* been applied in order
RECURSIVE CountAfter(_, _)
CountAfter(a, recs) ==
  IF recs = <<>> THEN WorkersListed(a)
  ELSE IF recs[Len(recs)].applicationId = a THEN recs[Len(recs)].workersCount
  ELSE CountAfter(a, SubSeq(recs, 1, Len(recs) - 1))

TotalAfter == SumOver([a \in Apps |-> CountAfter(a, recommendations)], Apps)

\* C26: when the workers listed are at most maxWorkers, the worker counts
\* after applying every recommendation returned by one call of
\* getRecommendations add up to at most maxWorkers.
C26_TotalWithinMaxWorkers ==
  (algPc = "done" /\ Len(workersInfo) <= maxWorkers) => TotalAfter <= maxWorkers

\* a call at the cap that moved a worker from one application to another
C26_Witness ==
  /\ algPc = "done"
  /\ Len(workersInfo) = maxWorkers
  /\ \E i, j \in DOMAIN recommendations :
       /\ recommendations[i].direction = "down"
       /\ recommendations[j].direction = "up"
  /\ TotalAfter = maxWorkers

\* C27: the check that setupScaler schedules is periodic: for as long as
\* the scaler is set up a timer-driven checkForScaling is pending, each
\* firing leaving the next one scheduled.
C27_PeriodicCheckStaysScheduled == timerArmed

\* C28 as stated: one fetch is retried after NO_PROFILE_AVAILABLE at most
\* ceil(duration / attemptTimeout) + 1 times and then given up, so the
\* fetch returns.
C28_RetriesBounded ==
  /\ [](retries <= maxAttempts)
  /\ <>(fetchPc = "returned")

\* C28 amended: against one workerId a fetch is retried after
\* NO_PROFILE_AVAILABLE at most ceil(duration / attemptTimeout) + 1 times
\* and then given up; a fetch turns from a worker to its service at most
\* once, counting anew, so it is retried at most twice that often in all,
\* and it returns.
C28_RetriesBoundedPerWorkerId ==
  /\ [](/\ attempt - 1 <= maxAttempts
        /\ fallbacks <= 1
        /\ fallbacks = 0 => retries = attempt - 1
        /\ retries <= 2 * maxAttempts
        /\ fetchPc = "sleeping" => attempt <= maxAttempts)
  /\ <>(fetchPc = "returned")

\* a fetch given up after the last attempt against the service, having
\* been retried against the worker before
C28_Witness ==
  /\ fetchPc = "returned"
  /\ fetchResult = "undefined"
  /\ attempt = maxAttempts + 1
  /\ fallbacks = 1
  /\ retries > maxAttempts

\* the applications as getRecommendations orders them, the recommendations
\* of its scale-down pass and the worker total after that pass
AppsSorted == SortedAppsInfo(workersInfo)
PassDowns == ScaleDownPass(AppsSorted, Len(AppsSorted))
TotalAfterPass == Len(workersInfo) - Len(PassDowns)
UpCandidate == AppsSorted[Len(AppsSorted)]
LowestApp == AppsSorted[1]

\* the call returned, after the scale-down pass, a down for the lowest-ELU
\* application and an up for the candidate
PairEmitted ==
  recommendations =
    PassDowns \o
    << [applicationId |-> LowestApp.applicationId,
        workersCount |-> LowestApp.workersCount - 1, direction |-> "down"],
       [applicationId |-> UpCandidate.applicationId,
        workersCount |-> UpCandidate.workersCount + 1, direction |-> "up"] >>

NoScaleUp == \A i \in DOMAIN recommendations : recommendations[i].direction # "up"

AtTheCap ==
  /\ algPc = "done"
  /\ UpCandidate.elu > scaleUpELU
  /\ TotalAfterPass >= maxWorkers

\* C29: with the candidate above scaleUpELU and the total after the
\* scale-down pass at or above maxWorkers, the pair (down for the
\* lowest-ELU application, up for the candidate) is returned iff the
\* lowest-ELU application has more than one worker and either the ELU gap
\* is at least minELUDiff or the worker-count gap is at least 2; otherwise
\* no scale-up is returned.
C29_ReallocationIffDonorAndGap ==
  AtTheCap =>
    IF /\ LowestApp.workersCount > 1
       /\ \/ UpCandidate.elu - LowestApp.elu >= minELUDiff
          \/ LowestApp.workersCount - UpCandidate.workersCount >= 2
    THEN PairEmitted
    ELSE NoScaleUp

\* the applications the call should scale down: listed, below scaleDownELU
\* and with more than one worker
ScaleDownDue ==
  {a \in Apps : WorkersListed(a) > 1 /\ appELU[a] < scaleDownELU}

\* C30: a call recommends (workerCount - 1, down) for every application
\* with elu < scaleDownELU and more than one worker, however many there are.
C30_EveryIdleAppScaledDown ==
  algPc = "done" =>
    \A a \in ScaleDownDue :
      \E i \in DOMAIN recommendations :
        recommendations[i] = [applicationId |-> a,
                              workersCount |-> WorkersListed(a) - 1,
                              direction |-> "down"]

\* one call scaled two applications down
C30_Witness ==
  /\ algPc = "done"
  /\ Cardinality(ScaleDownDue) = 2
  /\ Cardinality({i \in DOMAIN recommendations : recommendations[i].direction = "down"}) = 2

\* the one recommendation that adds a worker to the candidate
UpForCandidate ==
  [applicationId |-> UpCandidate.applicationId,
   workersCount |-> UpCandidate.workersCount + 1,
   direction |-> "up"]

UnderTheCap ==
  /\ algPc = "done"
  /\ UpCandidate.elu > scaleUpELU
  /\ TotalAfterPass < maxWorkers

PauseEndsNow(s) == profilersPauseReqs[s] = now

\* the step put the request of c into the queue of the Profiler registered
\* for its pair
RequestQueuedFor(c) ==
  LET p == Lookup(profilers'[c.serviceId], c.profileType)
  IN /\ p # 0
     /\ cnt'.req = cnt.req + 1
     /\ prof'[p].requests # <<>>
     /\ prof'[p].requests[Len(prof'[p].requests)].alertId = c.alertId
     /\ prof'[p].requests[Len(prof'[p].requests)].timestamp = now

\* C32: a pause whose end equals now has expired: a requestFlamegraphs
\* that reaches the pause check at that instant, with workers listed, is
\* not dropped but queued on the Profiler of its pair.
C32_PauseExpiredAtItsEnd ==
  [][\A c \in BagToSet(calls) :
       (ResumesRequest(c) /\ PauseEndsNow(c.serviceId) /\ workers # {})
         => RequestQueuedFor(c)]_vars

\* a request queued at the instant a pause ended
C32_Witness ==
  \E s \in Services, p \in ProfIds :
    /\ PauseEndsNow(s)
    /\ cnt.pause >= 1
    /\ Lookup(profilers[s], "cpu") = p
    /\ \E i \in DOMAIN prof[p].requests : prof[p].requests[i].timestamp = now

\* the step ends the checkForScaling invocation t
FinishesCheck(t) == tasks[t] # "idle" /\ tasks'[t] = "idle"

\* the step starts a checkForScaling past the guards
StartsCheck == \E t \in TaskIds : tasks[t] = "idle" /\ tasks'[t] = "listing"

\* C33: the end of a check that passed the guards sets lastScaling to the
\* time of completion and releases isScaling, also when listing the
\* workers or the apply failed; while the cooldown after a failed check
\* runs no check passes the guards.
C33_CooldownAfterFailure ==
  /\ [][\A t \in TaskIds :
          FinishesCheck(t) => lastScaling' = now /\ ~isScaling']_vars
  /\ [][(lastFinish = "failed" /\ now < lastScaling + CooldownMs) => ~StartsCheck]_vars

\* the apply of a check was rejected a moment ago, and the cooldown that
\* follows it is running
C33_Witness ==
  /\ lastFinish = "failed"
  /\ \E i \in DOMAIN applyLog : applyLog[i].done = lastScaling
  /\ now > lastScaling
  /\ now < lastScaling + CooldownMs
  /\ \A t \in TaskIds : tasks[t] = "idle"

\* the step receives the answer to command t
Answered(t) == t \in inflight /\ t \notin inflight'

\* the step is a rejection of startProfiling: the command is answered and
\* no interval is installed
StartFailed(t) ==
  /\ Answered(t) /\ t.kind = "start"
  /\ prof'[t.p].getProfileInterval = prof[t.p].getProfileInterval
  /\ prof'[t.p].lostIntervals = prof[t.p].lostIntervals

\* the step is a rejection of the profile retrieval: the commands are
\* answered and no profile is at hand
GetFailed(t) ==
  /\ Answered(t) /\ t.kind = "get"
  /\ lastDelivery'.profile # "profile"

\* onProfile(err, null, requests) with every request that was queued on
\* Profiler p, none of which stays queued
ErrorDeliveredWithAll(p) ==
  /\ lastDelivery'.p = p
  /\ lastDelivery'.err
  /\ lastDelivery'.profile = "null"
  /\ lastDelivery'.requests = prof[p].requests
  /\ prof'[p].requests = <<>>

\* C34: when startProfiling or the profile retrieval fails, onProfile is
\* invoked with (error, null, all requests pending) and the queue is left
\* empty.
C34_ErrorDeliversAllPending ==
  [][\A t \in inflight :
       (StartFailed(t) \/ GetFailed(t)) => ErrorDeliveredWithAll(t.p)]_vars

\* a failed retrieval handed two pending requests to onProfile with the
\* error
C34_Witness ==
  /\ lastDelivery.kind = "profile"
  /\ lastDelivery.err
  /\ Len(lastDelivery.requests) = 2
  /\ prof[lastDelivery.p].requests = <<>>

\* nothing is left that would hand the queue of Profiler p to onProfile: no
\* command in flight, no interval to produce a profile, no idle stop
NothingPending(p) ==
  /\ ~ \E t \in inflight : t.p = p
  /\ prof[p].getProfileInterval = None
  /\ prof[p].lostIntervals = <<>>
  /\ prof[p].stopProfileTimeout = None
  /\ prof[p].lostTimeouts = <<>>

\* C35: a request accepted by requestProfile is passed to onProfile once
\* and no more, and it is never left in the queue with nothing pending that
\* would deliver it, where it would stay for ever.
C35_EveryRequestDeliveredOnce ==
  /\ \A n \in DOMAIN delivered : delivered[n] <= 1
  /\ \A p \in ProfIds : prof[p].requests # <<>> => ~NothingPending(p)

\* C36: a rejected startProfiling leaves the Profiler idle, isProfiling
\* false, and a requestProfile on a Profiler with no command in flight and
\* no interval installed sends startProfiling.
C36_IdleAfterFailedStart ==
  /\ [][\A t \in inflight : StartFailed(t) => ~prof'[t.p].isProfiling]_vars
  /\ [][\A p \in ProfIds :
          (RequestProfileOn(p) /\ NothingPending(p)) => StartedProfiling(p)]_vars

\* the idle-stop timers of Profiler p still to fire
IdleStopTimers(p) ==
  Len(prof[p].lostTimeouts) + (IF prof[p].stopProfileTimeout = None THEN 0 ELSE 1)

\* C37: a Profiler has at most one idle-stop timer pending.
C37_OneIdleStopTimer == \A p \in ProfIds : IdleStopTimers(p) <= 1

\* the flamegraph uploads among the requests the handler sent to ICC for
\* the onProfile invocation of the step just taken
UploadsMade == {i \in DOMAIN lastCalls : lastCalls[i].kind = "upload"}

\* C38: a production or a stop that matched no request causes no
\* flamegraph upload.
C38_NoUploadWithoutRequest ==
  (lastDelivery.kind \in {"profile", "stop"} /\ lastDelivery.requests = <<>>)
    => UploadsMade = {}

\* the WebSockets that are open or being opened and have emitted no error
LiveSockets ==
  {c \in ConnIds : conns[c].state \in {"connecting", "open"} /\ conns[c].errors = 0}

\* C39: at most one WebSocket to ICC is open or being established at any
\* time.
C39_OneLiveSocket == Cardinality(LiveSockets) <= 1

\* an apply finished less than a cooldown ago
RecentApply ==
  \E i \in DOMAIN applyLog :
    applyLog[i].done # None /\ now < applyLog[i].done + CooldownMs

\* C40: the cooldown is in force only when an apply finished less than a
\* cooldown ago, or the latest check failed, and the end of a check that
\* produced no recommendation leaves lastScaling as it was.
C40_CooldownOnlyAfterApply ==
  /\ [](IsInCooldown => (RecentApply \/ lastFinish = "failed"))
  /\ [][\A t \in TaskIds :
          (FinishesCheck(t) /\ lastFinish' = "noRecommendations")
            => lastScaling' = lastScaling]_vars

====
